---- MODULE Spec2Model ----
(***************************************************************************)
(* RuleFlow: the cell-sequence stores (core/vec.py: Vec, TrieVec), the     *)
(* 1-D space and the event engine (core/engine.py) and the FlowLang rules  *)
(* (flow_lang/implementation.py), as a state machine.                      *)
(*                                                                         *)
(* Heap model.  A store's `vec` is private to the store (Vec.branch copies *)
(* the list, a pvector is immutable), so it is kept by value.  The search  *)
(* buffer is a bytearray that branch() may SHARE between two stores, so    *)
(* buffers live in the heap `bufs` and a store holds a reference.  Cells   *)
(* are mutable objects shared between branches, so they live in the heap   *)
(* `cells` and sequences hold references (indices).                        *)
(*                                                                         *)
(* Exceptions.  A Python call that raises leaves the mutations it already  *)
(* made; `exc` records the exception the last call ended with.             *)
(***************************************************************************)
EXTENDS Integers, Sequences, FiniteSets, TLC

\* ---------------------------------------------------------------- bounds
MaxLen == 2
MaxStores == 3
InitLen == 1
MaxVal == 1
MaxOps == 3
MaxEvolves == 3
MaxSteps == 2
MaxSpaceOps == 2

VARIABLES
    stores,       \* heap of Vec / TrieVec objects
    bufs,         \* heap of bytearray objects (search buffers)
    cells,        \* heap of Cell objects
    bytes_cache,  \* vec.enable_bytes_cache(b): TRUE is the module default
    exc,          \* exception raised by the last call ("none" when it returned)
    last,         \* history: the last public call, [op, store]
    nops,         \* history: the number of public calls made so far
    parent,       \* history: parent[s] is the store s was branched from (0: none)
    events,       \* Flow.events
    rules,        \* Flow.rule_set.rules: the rule objects, with their mutable flags
    pc,           \* the Flow method in progress ("idle" between calls)
    max_steps,    \* the steps the loop in progress may still take
    calls,        \* history: the evolve() calls made by the last Flow method called
    trace,        \* history: the searches Rule.match made in the last evolve()
    turns,        \* history: the rules RuleSet.apply matched in the last evolve()
    others,       \* the other Flow objects of the process: [events, rules, calls, exc]
    caches        \* core.vec's _bytes_cache and _pattern_cache, with their sizes

vars == <<stores, bufs, cells, bytes_cache, exc, last, nops, parent,
          events, rules, pc, max_steps, calls, trace, turns, others, caches>>

\* the variables of a Flow, which a bare store does not have
flow_vars == <<events, rules, pc, max_steps, calls, trace, turns, others>>

\* ------------------------------------------------------- Python sequences
Quanta == {"A", "B"}

\* ord(c.quanta): the single-byte encoding of a quanta
Ord(q) ==
    CASE q = "A" -> 65
      [] q = "B" -> 66
      [] q = "C" -> 67
      [] q = "_" -> 95
      [] OTHER -> 46

\* an index as Python resolves it against a container of length n
NormIdx(i, n) == IF i < 0 THEN i + n ELSE i

\* whether container[i] is a valid subscript (no IndexError)
InRange(i, n) == NormIdx(i, n) >= 0 /\ NormIdx(i, n) < n

\* slice(i, ...).indices(n) for one endpoint, step 1
ClampIdx(i, n) ==
    IF i < 0 THEN (IF i + n < 0 THEN 0 ELSE i + n)
    ELSE IF i > n THEN n ELSE i

\* l[:a] and l[b:] for endpoints already clamped to 0..Len(l)
Prefix(l, a) == SubSeq(l, 1, a)
Suffix(l, b) == SubSeq(l, b + 1, Len(l))

\* l[start:stop]
GetSlice(l, start, stop) ==
    LET a == ClampIdx(start, Len(l))
        b == ClampIdx(stop, Len(l))
    IN  IF b <= a THEN <<>> ELSE SubSeq(l, a + 1, b)

\* l[start:stop] = v on a list or a bytearray (an inverted slice inserts at start)
SetSlice(l, start, stop, v) ==
    LET a  == ClampIdx(start, Len(l))
        b0 == ClampIdx(stop, Len(l))
        b  == IF b0 < a THEN a ELSE b0
    IN  Prefix(l, a) \o v \o Suffix(l, b)

\* l.insert(index, x) on a list or a bytearray
ListInsert(l, index, x) ==
    LET a == ClampIdx(index, Len(l))
    IN  Prefix(l, a) \o <<x>> \o Suffix(l, a)

\* l[index] = x for a valid subscript
SetAt(l, index, x) == [l EXCEPT ![NormIdx(index, Len(l)) + 1] = x]

\* del l[index] for a valid subscript
DelAt(l, index) ==
    LET a == NormIdx(index, Len(l))
    IN  Prefix(l, a) \o Suffix(l, a + 1)

\* bytes(ord(c.quanta) for c in key)
Encode(C, key) == [i \in 1..Len(key) |-> Ord(C[key[i]].quanta)]

\* ------------------------------------------------------------ regex search
\* the byte of the regex wildcard '.', which matches any byte but a newline
Dot == 46
Newline == 10

\* whether compiled pattern p matches buffer buf at offset pos (p: literal bytes and '.')
MatchAt(p, buf, pos) ==
    \A j \in 1..Len(p) :
        \/ p[j] = buf[pos + j]
        \/ p[j] = Dot /\ buf[pos + j] # Newline

\* Pattern.finditer from offset pos: leftmost, non-overlapping spans (start, end)
RECURSIVE FindFrom(_, _, _)
FindFrom(p, buf, pos) ==
    IF pos + Len(p) > Len(buf) THEN <<>>
    ELSE IF MatchAt(p, buf, pos)
         THEN <<<<pos, pos + Len(p)>>>> \o FindFrom(p, buf, pos + Len(p))
         ELSE FindFrom(p, buf, pos + 1)

\* finditer(pattern, search_buffer) of vec.py, for a non-empty pattern
finditer(p, buf) == FindFrom(p, buf, 0)

\* ------------------------------------------------------------ memory
\* F(e), with e evaluated once: the value of a call is computed when the call
\* returns and then used, as in the source
Bind(e, F(_)) == CHOOSE y \in {F(x) : x \in {e}} : TRUE

\* The heap a call works on: M.stores, M.bufs, M.cells, and M.exc, the
\* exception in flight ("none" while the call is running normally).
Mem == [stores |-> stores, bufs |-> bufs, cells |-> cells, exc |-> "none"]

Raise(M, e) == [M EXCEPT !.exc = e]

Buf(M, s) == M.bufs[M.stores[s].search_buffer]

\* _retrieve_bytes(key) as installed by enable_bytes_cache(b).  With the cache
\* on, the key is looked up in a dict: a tuple holding a Cell is unhashable
\* (Cell defines __eq__ and no __hash__), the TypeError handler calls
\* retrieve_bytes(tuple(key)) again, and the recursion ends in RecursionError.
\* Only the empty key is hashable.  [ok, bytes]
retrieve_bytes(C, key) ==
    IF bytes_cache /\ key # <<>>
    THEN [ok |-> FALSE, bytes |-> <<>>]
    ELSE [ok |-> TRUE, bytes |-> Encode(C, key)]

\* _bytes_cache_size and _pattern_cache_size as the module sets them
bytes_cache_size == 1024
pattern_cache_size == 1024

\* The caches of core.vec after import: `enable_bytes_cache(True)` and
\* `enable_pattern_cache(True)` have run and both dicts are empty.  A dict is
\* the sequence of its [key, value] entries in insertion order; the switch
\* of the bytes cache is the variable bytes_cache.
DefaultCaches ==
    [bytes_cache |-> <<>>, bytes_cache_size |-> bytes_cache_size,
     pattern_cache |-> <<>>, pattern_cache_size |-> pattern_cache_size,
     pattern_cache_on |-> TRUE]

\* `key in d`, and d[key]
HasKey(d, key) == \E i \in DOMAIN d : d[i].key = key
ValueOf(d, key) == d[CHOOSE i \in DOMAIN d : d[i].key = key].value

\* the `except KeyError` branch of retrieve_bytes and retrieve_pattern:
\* `if len(d) >= size: del d[next(iter(d))]` (nothing to delete in an empty
\* dict: StopIteration is passed over), then `d[key] = value`
CacheInsert(d, size, key, value) ==
    LET kept == IF Len(d) >= size /\ d # <<>> THEN Tail(d) ELSE d
    IN  Append(kept, [key |-> key, value |-> value])

\* _retrieve_pattern(p) as installed by enable_pattern_cache(b).  p is
\* [str, chars]: a str or a bytes object of those characters; the compiled
\* pattern is that of bytes(p).  [c, pattern, hit]
cached_retrieve_pattern(c, p) ==
    IF ~c.pattern_cache_on THEN [c |-> c, pattern |-> p.chars, hit |-> FALSE]
    ELSE IF HasKey(c.pattern_cache, p)
    THEN [c |-> c, pattern |-> ValueOf(c.pattern_cache, p), hit |-> TRUE]
    ELSE [c |-> [c EXCEPT !.pattern_cache =
                     CacheInsert(@, c.pattern_cache_size, p, p.chars)],
          pattern |-> p.chars, hit |-> FALSE]

\* _retrieve_bytes(key) as installed by enable_bytes_cache(b), on the dict.
\* key is [tuple, cells]: a tuple or a list of those cells.  A list is not
\* hashable and is looked up again as a tuple; a tuple that holds a Cell is
\* not hashable either, and is looked up again as itself until the stack
\* overflows.  [c, ok, bytes, hit]
cached_retrieve_bytes(c, on, C, key) ==
    IF ~on THEN [c |-> c, ok |-> TRUE, bytes |-> Encode(C, key.cells), hit |-> FALSE]
    ELSE IF key.cells # <<>> THEN [c |-> c, ok |-> FALSE, bytes |-> <<>>, hit |-> FALSE]
    ELSE IF HasKey(c.bytes_cache, <<>>)
    THEN [c |-> c, ok |-> TRUE, bytes |-> ValueOf(c.bytes_cache, <<>>), hit |-> TRUE]
    ELSE [c |-> [c EXCEPT !.bytes_cache =
                     CacheInsert(@, c.bytes_cache_size, <<>>, Encode(C, <<>>))],
          ok |-> TRUE, bytes |-> Encode(C, <<>>), hit |-> FALSE]

\* ------------------------------------------------------------ Vec
\* Vec.__init__ / TrieVec.__init__: the store object built over buffer id b
NewStore(kind, elems, b) ==
    [kind |-> kind, vec |-> elems, editing |-> FALSE, evolver |-> <<>>,
     search_buffer |-> b, branch_zero |-> TRUE]

\* Vec.__setitem__(index: int, value: Cell)
Vec_setitem_int(M, s, index, value) ==
    LET st == M.stores[s]
        b  == st.search_buffer
    IN  IF ~InRange(index, Len(st.vec)) THEN Raise(M, "IndexError")
        ELSE LET M1 == [M EXCEPT !.stores[s].vec = SetAt(st.vec, index, value)]
             IN  IF ~InRange(index, Len(M.bufs[b])) THEN Raise(M1, "IndexError")
                 ELSE [M1 EXCEPT !.bufs[b] =
                          SetAt(M.bufs[b], index, Ord(M.cells[value].quanta))]

\* Vec.__setitem__(index: slice, value: Sequence[Cell])
Vec_setitem_slice(M, s, start, stop, value) ==
    LET st == M.stores[s]
        b  == st.search_buffer
        M1 == [M EXCEPT !.stores[s].vec = SetSlice(st.vec, start, stop, value)]
        rb == retrieve_bytes(M.cells, value)
    IN  IF ~rb.ok THEN Raise(M1, "RecursionError")
        ELSE [M1 EXCEPT !.bufs[b] = SetSlice(M.bufs[b], start, stop, rb.bytes)]

\* Vec.__delitem__(index: int)
Vec_delitem_int(M, s, index) ==
    LET st == M.stores[s]
        b  == st.search_buffer
    IN  IF ~InRange(index, Len(st.vec)) THEN Raise(M, "IndexError")
        ELSE LET M1 == [M EXCEPT !.stores[s].vec = DelAt(st.vec, index)]
             IN  IF ~InRange(index, Len(M.bufs[b])) THEN Raise(M1, "IndexError")
                 ELSE [M1 EXCEPT !.bufs[b] = DelAt(M.bufs[b], index)]

\* Vec.__delitem__(index: slice)
Vec_delitem_slice(M, s, start, stop) ==
    LET st == M.stores[s]
        b  == st.search_buffer
    IN  [M EXCEPT !.stores[s].vec = SetSlice(st.vec, start, stop, <<>>),
                  !.bufs[b] = SetSlice(M.bufs[b], start, stop, <<>>)]

\* Vec.append(value)
Vec_append(M, s, value) ==
    LET st == M.stores[s]
        b  == st.search_buffer
    IN  [M EXCEPT !.stores[s].vec = Append(st.vec, value),
                  !.bufs[b] = Append(M.bufs[b], Ord(M.cells[value].quanta))]

\* Vec.extend(values)
Vec_extend(M, s, values) ==
    LET st == M.stores[s]
        b  == st.search_buffer
        M1 == [M EXCEPT !.stores[s].vec = st.vec \o values]
        rb == retrieve_bytes(M.cells, values)
    IN  IF ~rb.ok THEN Raise(M1, "RecursionError")
        ELSE [M1 EXCEPT !.bufs[b] = M.bufs[b] \o rb.bytes]

\* Vec.insert(index, value)
Vec_insert(M, s, index, value) ==
    LET st == M.stores[s]
        b  == st.search_buffer
    IN  [M EXCEPT !.stores[s].vec = ListInsert(st.vec, index, value),
                  !.bufs[b] = ListInsert(M.bufs[b], index, Ord(M.cells[value].quanta))]

\* mutant of the buffer a branch gets: one bytearray held by the class, the
\* same for every store of the process
BranchBuffer_Global(M, s) == [M |-> M, b |-> 1]

\* the buffer a branch gets: the parent's own bytearray on the parent's first
\* branch (_branch_zero), a copy of it afterwards.  [M, b]
BranchBuffer(M, s) ==
    LET st == M.stores[s]
    IN  IF st.branch_zero
        THEN [M |-> M, b |-> st.search_buffer]
        ELSE [M |-> [M EXCEPT !.bufs = Append(M.bufs, M.bufs[st.search_buffer])],
              b |-> Len(M.bufs) + 1]

\* Vec.branch(): the new store is appended to the heap (its id is Len(stores))
Vec_branch(M, s) ==
    LET bb == BranchBuffer(M, s)
        nv == NewStore("Vec", M.stores[s].vec, bb.b)
    IN  [bb.M EXCEPT !.stores = Append([M.stores EXCEPT ![s].branch_zero = FALSE], nv)]

\* Vec.__len__
Vec_len(M, s) == Len(M.stores[s].vec)

\* Vec.__getitem__ over every index: the cells a client reads through the store
Vec_getitem(M, s) == M.stores[s].vec

\* ------------------------------------------------------------ TrieVec
\* PVectorEvolver.__setitem__(index, val): a negative index counts from the
\* end, index = len appends, anything else out of range raises.  [ok, ev]
Evolver_set(ev, index, val) ==
    LET i == NormIdx(index, Len(ev))
    IN  IF i >= 0 /\ i < Len(ev) THEN [ok |-> TRUE, ev |-> [ev EXCEPT ![i + 1] = val]]
        ELSE IF i = Len(ev) THEN [ok |-> TRUE, ev |-> Append(ev, val)]
        ELSE [ok |-> FALSE, ev |-> ev]

\* TrieVec.edit()
TrieVec_edit(M, s) ==
    IF M.stores[s].editing THEN M
    ELSE [M EXCEPT !.stores[s].editing = TRUE, !.stores[s].evolver = M.stores[s].vec]

\* TrieVec.commit()
TrieVec_commit(M, s) ==
    IF M.stores[s].editing
    THEN [M EXCEPT !.stores[s].vec = M.stores[s].evolver,
                   !.stores[s].editing = FALSE,
                   !.stores[s].evolver = <<>>]
    ELSE M

\* the loop `for i, val in enumerate(value): self.evolver[start + i] = val`
RECURSIVE EvolverSetRun(_, _, _)
EvolverSetRun(ev, start, value) ==
    IF value = <<>> THEN ev
    ELSE EvolverSetRun(Evolver_set(ev, start, Head(value)).ev, start + 1, Tail(value))

\* TrieVec.__setitem__(index: slice, value): start and stop are resolved
\* against len(self.vec), the committed length, and are not reordered
TrieVec_setitem_slice(M, s, start, stop, value) ==
    LET n  == Len(M.stores[s].vec)
        a  == ClampIdx(start, n)
        b  == ClampIdx(stop, n)
        bf == M.stores[s].search_buffer
        M1 == IF Len(value) = b - a
              THEN LET E == TrieVec_edit(M, s)
                   IN  [E EXCEPT !.stores[s].evolver =
                           EvolverSetRun(E.stores[s].evolver, a, value)]
              ELSE LET K == TrieVec_commit(M, s)
                       v == K.stores[s].vec
                   IN  [K EXCEPT !.stores[s].vec = Prefix(v, a) \o value \o Suffix(v, b)]
        rb == retrieve_bytes(M.cells, value)
    IN  IF ~rb.ok THEN Raise(M1, "RecursionError")
        ELSE [M1 EXCEPT !.bufs[bf] = SetSlice(M.bufs[bf], a, b, rb.bytes)]

\* TrieVec.__setitem__(index: int, value: Cell)
TrieVec_setitem_int(M, s, index, value) ==
    LET E  == TrieVec_edit(M, s)
        r  == Evolver_set(E.stores[s].evolver, index, value)
        bf == M.stores[s].search_buffer
    IN  IF ~r.ok THEN Raise(E, "IndexError")
        ELSE LET M1 == [E EXCEPT !.stores[s].evolver = r.ev]
             IN  IF ~InRange(index, Len(M.bufs[bf])) THEN Raise(M1, "IndexError")
                 ELSE [M1 EXCEPT !.bufs[bf] =
                          SetAt(M.bufs[bf], index, Ord(M.cells[value].quanta))]

\* TrieVec.__delitem__(index: int): self[index:index+1] = ()
TrieVec_delitem_int(M, s, index) ==
    TrieVec_setitem_slice(M, s, index, index + 1, <<>>)

\* TrieVec.__delitem__(index: slice): self[index] = ()
TrieVec_delitem_slice(M, s, start, stop) ==
    TrieVec_setitem_slice(M, s, start, stop, <<>>)

\* TrieVec.append(value)
TrieVec_append(M, s, value) ==
    LET E  == TrieVec_edit(M, s)
        bf == M.stores[s].search_buffer
    IN  [E EXCEPT !.stores[s].evolver = Append(E.stores[s].evolver, value),
                  !.bufs[bf] = Append(M.bufs[bf], Ord(M.cells[value].quanta))]

\* TrieVec.extend(values)
TrieVec_extend(M, s, values) ==
    LET E  == TrieVec_edit(M, s)
        bf == M.stores[s].search_buffer
        M1 == [E EXCEPT !.stores[s].evolver = E.stores[s].evolver \o values]
        rb == retrieve_bytes(M.cells, values)
    IN  IF ~rb.ok THEN Raise(M1, "RecursionError")
        ELSE [M1 EXCEPT !.bufs[bf] = M.bufs[bf] \o rb.bytes]

\* TrieVec.insert(index, value): self[index:index] = (value,)
TrieVec_insert(M, s, index, value) ==
    TrieVec_setitem_slice(M, s, index, index, <<value>>)

\* mutant of TrieVec.branch(): the pending point updates are not flushed
TrieVec_branch_NoCommit(M, s) ==
    LET bb == BranchBuffer(M, s)
        nv == NewStore("TrieVec", M.stores[s].vec, bb.b)
    IN  [bb.M EXCEPT !.stores = Append([M.stores EXCEPT ![s].branch_zero = FALSE], nv)]

\* TrieVec.branch(): commit, then share the pvector
TrieVec_branch(M, s) ==
    LET K  == TrieVec_commit(M, s)
        bb == BranchBuffer(K, s)
        nv == NewStore("TrieVec", K.stores[s].vec, bb.b)
    IN  [bb.M EXCEPT !.stores = Append([K.stores EXCEPT ![s].branch_zero = FALSE], nv)]

\* ------------------------------------------- the store API, by dynamic type
IsTrie(M, s) == M.stores[s].kind = "TrieVec"

setitem_int(M, s, index, value) ==
    IF IsTrie(M, s) THEN TrieVec_setitem_int(M, s, index, value)
    ELSE Vec_setitem_int(M, s, index, value)

setitem_slice(M, s, start, stop, value) ==
    IF IsTrie(M, s) THEN TrieVec_setitem_slice(M, s, start, stop, value)
    ELSE Vec_setitem_slice(M, s, start, stop, value)

delitem_int(M, s, index) ==
    IF IsTrie(M, s) THEN TrieVec_delitem_int(M, s, index)
    ELSE Vec_delitem_int(M, s, index)

delitem_slice(M, s, start, stop) ==
    IF IsTrie(M, s) THEN TrieVec_delitem_slice(M, s, start, stop)
    ELSE Vec_delitem_slice(M, s, start, stop)

append(M, s, value) ==
    IF IsTrie(M, s) THEN TrieVec_append(M, s, value) ELSE Vec_append(M, s, value)

extend(M, s, values) ==
    IF IsTrie(M, s) THEN TrieVec_extend(M, s, values)
    ELSE Vec_extend(M, s, values)

insert(M, s, index, value) ==
    IF IsTrie(M, s) THEN TrieVec_insert(M, s, index, value)
    ELSE Vec_insert(M, s, index, value)

\* Vec.commit() is a placeholder that does nothing
commit(M, s) == IF IsTrie(M, s) THEN TrieVec_commit(M, s) ELSE M

branch(M, s) == IF IsTrie(M, s) THEN TrieVec_branch(M, s) ELSE Vec_branch(M, s)

\* ------------------------------------------------------------ SpaceState1D
\* A SpaceState1D holds nothing but `cells`, one Vec or TrieVec, so a space is
\* identified with its store: copy(space) is branch() on the store, and None
\* in a list of spaces is 0.

\* DeltaCell((), ())
EmptyDelta == [destroyed_cells |-> <<>>, new_cells |-> <<>>]

\* DeltaCell.__bool__
DeltaCell_bool(dc) == dc.destroyed_cells # <<>> \/ dc.new_cells # <<>>

\* mutant of deepcopy(cells): the cells themselves, no copy
DeepCopy_Shared(M, ids) == [M |-> M, ids |-> ids]

\* deepcopy(cells): Cell.__deepcopy__ is copy(self), a new Cell with the same
\* quanta, created_at and destroyed_at; copy_of remembers the Cell it was
\* copied from (0 for a Cell made by Cell(quanta)).  [M, ids]
DeepCopy(M, ids) ==
    [M   |-> [M EXCEPT !.cells = M.cells \o
                 [i \in 1..Len(ids) |-> [M.cells[ids[i]] EXCEPT !.copy_of = ids[i]]]],
     ids |-> [i \in 1..Len(ids) |-> Len(M.cells) + i]]

\* space.cells[start:end], read through Vec.__getitem__: the committed `vec`
ReadSlice(M, s, start, end) == GetSlice(M.stores[s].vec, start, end)

\* l[::-1]
Reversed(l) == [i \in 1..Len(l) |-> l[Len(l) + 1 - i]]

\* the result of a modifier that ended in heap M with delta dc.  [M, dc]
Modified(M, dc) == [M |-> M, dc |-> IF M.exc = "none" THEN dc ELSE EmptyDelta]

\* SpaceState1D.substitute(selector, new)
substitute(M, s, selector, new) ==
    Bind(setitem_slice(M, s, selector[1], selector[2], new), LAMBDA M1 :
        IF M1.exc # "none" THEN Modified(M1, EmptyDelta)
        ELSE Bind(DeepCopy(M1, ReadSlice(M, s, selector[1], selector[2])), LAMBDA D :
                Modified(D.M, [destroyed_cells |-> D.ids, new_cells |-> new])))

\* SpaceState1D.insert(selector, new)
space_insert(M, s, selector, new) ==
    LET sel == IF selector < 0 THEN Vec_len(M, s) + selector + 1 ELSE selector
    IN  Bind(setitem_slice(M, s, sel, sel, new), LAMBDA M1 :
            Modified(M1, [destroyed_cells |-> <<>>, new_cells |-> new]))

\* one turn of the loop of SpaceState1D.overwrite: cell new_char goes to index
\* idx; acc is [M, destroyed, new]
OverwriteCell(acc, s, idx, new_char) ==
    LET M == acc.M
    IN  IF M.cells[new_char].quanta = "_" THEN acc
        ELSE IF ~InRange(idx, Vec_len(M, s))
        THEN \* self.cells[idx] raises IndexError: append
             [M |-> append(M, s, new_char), destroyed |-> acc.destroyed,
              new |-> Append(acc.new, new_char)]
        ELSE Bind(setitem_int(M, s, idx, new_char), LAMBDA M1 :
                [M |-> IF M1.exc = "IndexError"
                       THEN append([M1 EXCEPT !.exc = "none"], s, new_char)
                       ELSE M1,
                 destroyed |-> Append(acc.destroyed,
                                      M.stores[s].vec[NormIdx(idx, Vec_len(M, s)) + 1]),
                 new |-> Append(acc.new, new_char)])

RECURSIVE OverwriteRun(_, _, _, _, _)
OverwriteRun(acc, s, selector, new, i) ==
    IF i >= Len(new) \/ acc.M.exc # "none" THEN acc
    ELSE Bind(OverwriteCell(acc, s, selector + i, new[i + 1]), LAMBDA acc1 :
            OverwriteRun(acc1, s, selector, new, i + 1))

\* SpaceState1D.overwrite(selector, new)
overwrite(M, s, selector, new) ==
    LET sel == IF selector < 0 THEN Vec_len(M, s) + selector ELSE selector
    IN  Bind(OverwriteRun([M |-> M, destroyed |-> <<>>, new |-> <<>>], s, sel, new, 0),
             LAMBDA acc :
                IF acc.M.exc # "none" THEN Modified(acc.M, EmptyDelta)
                ELSE Bind(DeepCopy(acc.M, acc.destroyed), LAMBDA D :
                        Modified(D.M, [destroyed_cells |-> D.ids, new_cells |-> acc.new])))

\* SpaceState1D.delete(selector)
delete(M, s, selector) ==
    Bind(setitem_slice(M, s, selector[1], selector[2], <<>>), LAMBDA M1 :
        IF M1.exc # "none" THEN Modified(M1, EmptyDelta)
        ELSE Bind(DeepCopy(M1, ReadSlice(M, s, selector[1], selector[2])), LAMBDA D :
                Modified(D.M, [destroyed_cells |-> D.ids, new_cells |-> <<>>])))

\* two slice assignments in a row; the second is skipped if the first raised
ThenSetSlice(M, s, start, stop, value) ==
    IF M.exc # "none" THEN M ELSE setitem_slice(M, s, start, stop, value)

\* SpaceState1D.shift(selector, k)
shift(M, s, selector, k) ==
    LET n     == Vec_len(M, s)
        end   == IF selector[2] < 0 THEN n + selector[2] ELSE selector[2]
        start == IF selector[1] < 0 THEN n + selector[1] ELSE selector[1]
    IN  IF k = 0 THEN Modified(M, EmptyDelta)
        ELSE IF k < 0
        THEN Bind(setitem_slice(M, s, end, end, ReadSlice(M, s, start + k, start)),
                  LAMBDA M1 :
                     Bind(ThenSetSlice(M1, s, start + k, start, <<>>), LAMBDA M2 :
                        Modified(M2, EmptyDelta)))
        ELSE Bind(setitem_slice(M, s, end, end + k, <<>>), LAMBDA M1 :
                Bind(ThenSetSlice(M1, s, start, start, ReadSlice(M, s, end, end + k)),
                     LAMBDA M2 : Modified(M2, EmptyDelta)))

\* SpaceState1D.swap(selector1, selector2)
swap(M, s, selector1, selector2) ==
    LET n      == Vec_len(M, s)
        end1   == IF selector1[2] < 0 THEN n + selector1[2] ELSE selector1[2]
        start1 == IF selector1[1] < 0 THEN n + selector1[1] ELSE selector1[1]
        end2   == IF selector2[2] < 0 THEN n + selector2[2] ELSE selector2[2]
        start2 == IF selector2[1] < 0 THEN n + selector2[1] ELSE selector2[1]
        \* the ranges in the order of their starts
        lo     == IF start2 < start1 THEN <<start2, end2>> ELSE <<start1, end1>>
        hi     == IF start2 < start1 THEN <<start1, end1>> ELSE <<start2, end2>>
    IN  IF \/ start1 < start2 /\ start2 < end1
           \/ start1 < end2 /\ end2 < end1
           \/ start2 < start1 /\ start1 < end2
           \/ start2 < end1 /\ end1 < end2
        THEN Modified(Raise(M, "IndexError"), EmptyDelta)
        ELSE Bind(setitem_slice(M, s, hi[1], hi[2], ReadSlice(M, s, lo[1], lo[2])),
                  LAMBDA M1 :
                     Bind(ThenSetSlice(M1, s, lo[1], lo[2],
                                       ReadSlice(M, s, hi[1], hi[2])),
                          LAMBDA M2 : Modified(M2, EmptyDelta)))

\* SpaceState1D.reverse(selector)
reverse(M, s, selector) ==
    Bind(setitem_slice(M, s, selector[1], selector[2],
                       Reversed(ReadSlice(M, s, selector[1], selector[2]))),
         LAMBDA M1 : Modified(M1, EmptyDelta))

\* SpaceState1D.__bool__: bool(self.cells), that is len(self.cells) > 0
Space_bool(M, s) == Vec_len(M, s) > 0

\* ------------------------------------------------------------ BaseRule
\* numerical_helpers.INF: greater than every int, unchanged by subtraction
INF == 1000000

\* Selector(type, selector): a compiled literal or regex, or a range (start, end)
Literal(p) == [type |-> "literal", selector |-> p]
Range(a, b) == [type |-> "range", selector |-> <<a, b>>]

\* BaseRule.__init__(selector, target) of the rule class `kind`, with the flags
\* at their defaults.  A literal target is a sequence of template cells; the
\* target of a ShiftingRule is an int.
BaseRule(kind, selector, target) ==
    [kind |-> kind, selectors |-> selector, target |-> target,
     space_range |-> <<0, 1>>, match_range |-> <<0, 1>>, offset |-> 0,
     cmp |-> "ignore", no_causality_tracking |-> FALSE,
     no_initial_branch |-> FALSE, no_delta_submit |-> FALSE,
     parallel_execution_limit |-> 1, branch_limit |-> 0,
     branch_origin |-> "prev", crp |-> "ignore", lifespan |-> INF,
     disabled |-> FALSE, group |-> 0, group_break |-> TRUE,
     always_apply |-> FALSE]

\* the overlap test of BaseRule._conflict_detector
Overlaps(m1, m2) ==
    \/ (m1[1] < m2[1] /\ m2[1] < m1[2]) \/ (m1[1] < m2[2] /\ m2[2] < m1[2])
    \/ (m2[1] < m1[1] /\ m1[1] < m2[2]) \/ (m2[1] < m1[2] /\ m1[2] < m2[2])

\* BaseRule._conflict_detector(current_matches, match): indices count from 0
conflict_detector(rule, current_matches, match) ==
    LET this_idx == Len(current_matches)
    IN  UNION { IF ~Overlaps(match, current_matches[k]) THEN {}
                ELSE IF rule.crp = "this" THEN {this_idx}
                ELSE IF rule.crp = "og" THEN {k - 1}
                ELSE IF rule.cmp = "both" THEN {this_idx, k - 1}
                ELSE {} : k \in 1..Len(current_matches) }

\* the spans a selector yields on space s
Finds(M, s, pattern) ==
    IF pattern.type \in {"literal", "regex"} THEN finditer(pattern.selector, Buf(M, s))
    ELSE IF pattern.type = "range" THEN <<pattern.selector>>
    ELSE <<>>

\* the loop `for j, span in enumerate(finds)` of BaseRule.match, from turn j;
\* acc is [matches, conflicts]
RECURSIVE MatchSpans(_, _, _, _)
MatchSpans(rule, finds, j, acc) ==
    IF j >= Len(finds) \/ j >= rule.match_range[2] THEN acc
    ELSE IF rule.match_range[1] > j THEN MatchSpans(rule, finds, j + 1, acc)
    ELSE LET span == <<finds[j + 1][1] + rule.offset, finds[j + 1][2] + rule.offset>>
             cf   == IF rule.cmp # "ignore"
                     THEN conflict_detector(rule, acc.matches, span) ELSE {}
         IN  Bind([matches |-> Append(acc.matches, span),
                   conflicts |-> acc.conflicts \cup cf],
                  LAMBDA acc1 : MatchSpans(rule, finds, j + 1, acc1))

\* the loop `for pattern in self.selectors` of BaseRule.match, from selector k
RECURSIVE MatchSelectors(_, _, _, _, _)
MatchSelectors(M, rule, s, k, acc) ==
    IF k > Len(rule.selectors) THEN acc
    ELSE Bind(Finds(M, s, rule.selectors[k]), LAMBDA finds :
            Bind(MatchSpans(rule, finds, 0, acc), LAMBDA acc1 :
                MatchSelectors(M, rule, s, k + 1, acc1)))

\* a match that looks at the space at position space_range[1] too
InSpaceRange_Inclusive(rule, spaces) ==
    {i \in 1..Len(spaces) : rule.space_range[1] <= i - 1 /\ i - 1 <= rule.space_range[2]}

\* the spaces of `spaces` that BaseRule.match looks at: those in space_range
InSpaceRange(rule, spaces) ==
    {i \in 1..Len(spaces) : rule.space_range[1] <= i - 1 /\ i - 1 < rule.space_range[2]}

\* BaseRule.match(spaces), from space i on: the RuleMatch of every space in
\* space_range with at least one match.  The chain of a rule is [self].
RECURSIVE MatchFrom(_, _, _, _)
MatchFrom(M, rule, spaces, i) ==
    IF i > Len(spaces) THEN <<>>
    ELSE Bind(IF i \in InSpaceRange(rule, spaces) /\ ~rule.disabled
              THEN MatchSelectors(M, rule, spaces[i], 1,
                                  [matches |-> <<>>, conflicts |-> {}])
              ELSE [matches |-> <<>>, conflicts |-> {}],
              LAMBDA acc :
                 IF acc.matches # <<>>
                 THEN <<[space |-> spaces[i], matches |-> acc.matches,
                         conflicts |-> acc.conflicts]>>
                      \o MatchFrom(M, rule, spaces, i + 1)
                 ELSE MatchFrom(M, rule, spaces, i + 1))

match(M, rule, spaces) == MatchFrom(M, rule, spaces, 1)

\* BaseRule._aggregate_DeltaCells(delta_cells)
RECURSIVE aggregate_DeltaCells(_)
aggregate_DeltaCells(delta_cells) ==
    IF delta_cells = <<>> THEN EmptyDelta
    ELSE LET rest == aggregate_DeltaCells(Tail(delta_cells))
         IN  [destroyed_cells |-> Head(delta_cells).destroyed_cells \o rest.destroyed_cells,
              new_cells |-> Head(delta_cells).new_cells \o rest.new_cells]

\* _call_space_modifier(space, selector, target) of the six rule classes
call_space_modifier(M, rule, s, selector, target) ==
    CASE rule.kind = "Substitution" ->
            Bind(DeepCopy(M, target), LAMBDA D : substitute(D.M, s, selector, D.ids))
      [] rule.kind = "Insertion" ->
            Bind(DeepCopy(M, target), LAMBDA D : space_insert(D.M, s, selector[1], D.ids))
      [] rule.kind = "Overwrite" ->
            Bind(DeepCopy(M, target), LAMBDA D : overwrite(D.M, s, selector[1], D.ids))
      [] rule.kind = "Deletion" -> delete(M, s, selector)
      [] rule.kind = "Shifting" -> shift(M, s, selector, target)
      [] rule.kind = "Reverse" -> reverse(M, s, selector)

\* copy(space): SpaceState1D.__copy__ branches the store.  [M, space]
CopySpace(M, s) ==
    Bind(branch(M, s), LAMBDA B : [M |-> B, space |-> Len(B.stores)])

\* the space a new branch starts from, by branch_origin
BranchOrigin(rule, prev_space, current_space) ==
    IF rule.branch_origin = "prev" THEN prev_space ELSE current_space

\* the spaces other than s whose cells or search buffer differ between the
\* heaps M0 and M1
Touched(M0, M1, s) ==
    {t \in DOMAIN M0.stores \ {s} :
        \/ M1.stores[t].vec # M0.stores[t].vec
        \/ M1.bufs[M1.stores[t].search_buffer] # M0.bufs[M0.stores[t].search_buffer]}

\* history: _call_space_modifier(s, selector, target), called for match idx
\* on the heap M0, returned dc and left the heap M; conflict: it was called
\* on a conflict branch
Edited(M0, M, idx, s, selector, dc, conflict) ==
    [M EXCEPT !.edits = Append(@, [idx |-> idx, space |-> s, selector |-> selector,
                                   dc |-> dc, conflict |-> conflict,
                                   touched |-> Touched(M0, M, s)])]

\* a conflicting selector under crp = branch or branch_nbl: the edit goes to
\* a copy of the branch origin, which is submitted on its own.
\* [M, M0, st, space, dc]: M0 is the heap after the copy, before the edit
ApplyConflictBranch(M, rule, rm, selector, target, st) ==
    Bind(CopySpace(M, BranchOrigin(rule, rm.space, st.current_space)), LAMBDA C :
        Bind(call_space_modifier(C.M, rule, C.space, selector, target), LAMBDA r :
            [M  |-> r.M, M0 |-> C.M, space |-> C.space, dc |-> r.dc,
             st |-> [st EXCEPT
                       !.submitted_spaces =
                           Append(@, IF rule.no_delta_submit THEN 0 ELSE C.space),
                       !.submitted_cell_deltas =
                           Append(@, IF rule.no_causality_tracking
                                     THEN EmptyDelta ELSE r.dc)]]))

\* `submitted_spaces.append(...)`, `submitted_cell_deltas.append(...)`,
\* `pl = 0`, `cell_deltas.clear()`: the working space is submitted
Submit(rule, st) ==
    [st EXCEPT
       !.submitted_spaces =
           Append(@, IF rule.no_delta_submit THEN 0 ELSE st.current_space),
       !.submitted_cell_deltas =
           Append(@, IF rule.no_causality_tracking THEN EmptyDelta
                     ELSE aggregate_DeltaCells(st.cell_deltas)),
       !.pl = 0, !.cell_deltas = <<>>]

\* the run of BaseRule.apply over the matches of one RuleMatch, from match idx
\* (counted from 0).  st holds the locals current_space, cell_deltas, pl, bl,
\* submitted_spaces, submitted_cell_deltas.  [M, st]
RECURSIVE ApplyRun(_, _, _, _, _)
ApplyRun(M, rule, rm, idx, st) ==
    IF idx >= Len(rm.matches) \/ M.exc # "none" THEN [M |-> M, st |-> st]
    ELSE
    LET selector == rm.matches[idx + 1]
        target   == IF rule.target # <<>>
                    THEN rule.target[(idx % Len(rule.target)) + 1] ELSE <<>>
    IN  IF rule.parallel_execution_limit > 1 /\ rule.crp # "ignore"
           /\ idx \in rm.conflicts
        THEN \* the selector is a conflict
             IF rule.crp \in {"branch", "branch_nbl"}
             THEN IF rule.crp = "branch" /\ st.bl > rule.branch_limit
                  THEN ApplyRun(M, rule, rm, idx + 1, st)
                  ELSE Bind(ApplyConflictBranch(M, rule, rm, selector, target, st),
                            LAMBDA b :
                       IF b.M.exc # "none" THEN [M |-> b.M, st |-> b.st]
                       ELSE ApplyRun(Edited(b.M0, b.M, idx, b.space, selector, b.dc, TRUE),
                                     rule, rm, idx + 1, b.st))
             ELSE IF rule.crp = "break" THEN [M |-> M, st |-> st]
             ELSE ApplyRun(M, rule, rm, idx + 1, st)
        ELSE \* apply operation
             Bind(call_space_modifier(M, rule, st.current_space, selector, target),
                  LAMBDA r :
             IF r.M.exc # "none" THEN [M |-> r.M, st |-> st]
             ELSE
             Bind(Edited(M, r.M, idx, st.current_space, selector, r.dc, FALSE), LAMBDA M1 :
             Bind([st EXCEPT !.cell_deltas = Append(@, r.dc), !.pl = @ + 1], LAMBDA s1 :
             IF s1.pl = rule.parallel_execution_limit \/ idx = Len(rm.matches) - 1
             THEN \* submit the modified space
                  Bind(Submit(rule, s1), LAMBDA s2 :
                  IF st.bl # rule.branch_limit
                  THEN Bind(CopySpace(M1, BranchOrigin(rule, rm.space, st.current_space)),
                            LAMBDA C :
                       Bind([s2 EXCEPT !.current_space = C.space, !.bl = @ + 1],
                            LAMBDA s3 : ApplyRun(C.M, rule, rm, idx + 1, s3)))
                  ELSE [M |-> M1, st |-> s2])
             ELSE ApplyRun(M1, rule, rm, idx + 1, s1))))

\* the body of `for rule_match in rule_matches` in BaseRule.apply: the
\* DeltaSpace of one RuleMatch.  [M, ds]
ApplyMatch(M, rule, rm) ==
    Bind(IF rule.no_initial_branch THEN [M |-> M, space |-> rm.space]
         ELSE CopySpace(M, rm.space),
         LAMBDA C :
    Bind(ApplyRun(C.M, rule, rm, 0,
                  [current_space |-> C.space, cell_deltas |-> <<>>,
                   pl |-> 0, bl |-> 0,
                   submitted_spaces |-> <<>>, submitted_cell_deltas |-> <<>>]),
         LAMBDA run :
            [M  |-> run.M,
             ds |-> [input_space |-> rm.space,
                     output_space |-> run.st.submitted_spaces,
                     cell_deltas |-> run.st.submitted_cell_deltas]]))

RECURSIVE ApplyMatches(_, _, _, _)
ApplyMatches(M, rule, rule_matches, k) ==
    IF k > Len(rule_matches) \/ M.exc # "none" THEN [M |-> M, modified_spaces |-> <<>>]
    ELSE Bind(ApplyMatch(M, rule, rule_matches[k]), LAMBDA a :
         Bind(ApplyMatches(a.M, rule, rule_matches, k + 1), LAMBDA rest :
            [M |-> rest.M, modified_spaces |-> <<a.ds>> \o rest.modified_spaces]))

\* self.lifespan -= 1
Decrement(lifespan) == IF lifespan = INF THEN INF ELSE lifespan - 1

\* BaseRule.apply(rule_matches) of rule number r: the rule's lifespan and
\* disabled flag live in M.rules.  [M, modified_spaces]
apply(M, r, rule_matches) ==
    Bind(ApplyMatches(M, M.rules[r], rule_matches, 1), LAMBDA a :
        IF a.M.exc # "none" THEN a
        ELSE LET l == Decrement(M.rules[r].lifespan)
             IN  [M |-> [a.M EXCEPT
                           !.rules[r].lifespan = l,
                           !.rules[r].disabled =
                               IF l = 0 /\ a.modified_spaces # <<>> THEN TRUE ELSE @],
                  modified_spaces |-> a.modified_spaces])

\* ------------------------------------------------------------ RuleSet
\* DeltaSpace.__bool__: any(output_space) or any(cell_deltas)
DeltaSpace_bool(M, ds) ==
    \/ \E k \in 1..Len(ds.output_space) :
          ds.output_space[k] # 0 /\ Space_bool(M, ds.output_space[k])
    \/ \E k \in 1..Len(ds.cell_deltas) : DeltaCell_bool(ds.cell_deltas[k])

\* DeltaSpaces.__bool__: any(space_deltas)
DeltaSpaces_bool(M, dss) ==
    \E k \in 1..Len(dss.space_deltas) : DeltaSpace_bool(M, dss.space_deltas[k])

\* what rule.match(to_spaces) is about to search: for every space in the
\* rule's space_range, the buffer it searches and the cells the space holds
Searches(M, rule, to_spaces) ==
    IF \E k \in 1..Len(rule.selectors) : rule.selectors[k].type \in {"literal", "regex"}
    THEN [i \in 1..Cardinality(InSpaceRange(rule, to_spaces)) |->
            LET s == to_spaces[CHOOSE n \in InSpaceRange(rule, to_spaces) :
                        Cardinality({m \in InSpaceRange(rule, to_spaces) : m < n}) = i - 1]
            IN  [space |-> s, buffer |-> Buf(M, s),
                 held |-> IF M.stores[s].editing THEN M.stores[s].evolver
                          ELSE M.stores[s].vec]]
    ELSE <<>>

\* group_management.setdefault(rule.group, True): the value it returns
GroupActive(group_management, rule) ==
    IF rule.group \in DOMAIN group_management
    THEN group_management[rule.group] ELSE TRUE

\* group_management.setdefault(rule.group, True): the dict it leaves
SetDefault(group_management, rule) ==
    [g \in DOMAIN group_management \cup {rule.group} |->
        IF g = rule.group THEN GroupActive(group_management, rule)
        ELSE group_management[g]]

\* mutant of GroupBreak: no group is ever deactivated
GroupBreak_Never(group_management, rule) == group_management

\* if rule.group_break: group_management[rule.group] = False
GroupBreak(group_management, rule) ==
    IF rule.group_break THEN [group_management EXCEPT ![rule.group] = FALSE]
    ELSE group_management

\* mutant of Record: the DeltaSpaces is recorded whatever it holds
Record_Always(acc, M, gm, r, space_deltas) ==
    [M |-> M, group_management |-> GroupBreak(gm, M.rules[r]),
     applied_rules |-> Append(acc.applied_rules, space_deltas)]

\* `if space_deltas:` of RuleSet.apply, for rule number r: the DeltaSpaces is
\* appended and the group of the rule broken; M is the heap apply() left
Record(acc, M, gm, r, space_deltas) ==
    IF DeltaSpaces_bool(M, space_deltas)
    THEN [M |-> M, group_management |-> GroupBreak(gm, M.rules[r]),
          applied_rules |-> Append(acc.applied_rules, space_deltas)]
    ELSE [acc EXCEPT !.M = M, !.group_management = gm]

\* the heap M after rule number r was matched: applied tells whether match()
\* found anything, so that apply() was called, and fired whether the
\* DeltaSpaces built from what apply() returned is true
Turn(M, r, applied, fired) ==
    [M EXCEPT !.turns = Append(@, [rule |-> r, applied |-> applied, fired |-> fired])]

\* the loop `for rule in self.rules` of RuleSet.apply, from rule r on;
\* acc is [M, group_management, applied_rules]; M.searched logs the searches
RECURSIVE RuleSetRun(_, _, _)
RuleSetRun(acc, to_spaces, r) ==
    IF r > Len(acc.M.rules) \/ acc.M.exc # "none" THEN acc
    ELSE
    LET M      == acc.M
        rule   == acc.M.rules[r]
        active == GroupActive(acc.group_management, rule)
    IN  IF rule.disabled THEN RuleSetRun(acc, to_spaces, r + 1)
        ELSE
        Bind(SetDefault(acc.group_management, rule), LAMBDA gm :
        IF ~active /\ ~rule.always_apply
        THEN Bind([acc EXCEPT !.group_management = gm],
                  LAMBDA acc1 : RuleSetRun(acc1, to_spaces, r + 1))
        ELSE
        Bind(match(M, rule, to_spaces), LAMBDA rule_matches :
        Bind([M EXCEPT !.searched = @ \o Searches(M, rule, to_spaces)], LAMBDA Ms :
        IF rule_matches = <<>>
        THEN Bind([acc EXCEPT !.M = Turn(Ms, r, FALSE, FALSE), !.group_management = gm],
                  LAMBDA acc1 : RuleSetRun(acc1, to_spaces, r + 1))
        ELSE
        Bind(apply(Ms, r, rule_matches), LAMBDA a :
        IF a.M.exc # "none" THEN [acc EXCEPT !.M = a.M]
        ELSE
        Bind([space_deltas |-> a.modified_spaces, rule |-> r], LAMBDA space_deltas :
        Bind(Record(acc, Turn(a.M, r, TRUE, DeltaSpaces_bool(a.M, space_deltas)),
                    gm, r, space_deltas),
             LAMBDA acc1 : RuleSetRun(acc1, to_spaces, r + 1)))))))

\* RuleSet.apply(to_spaces).  [M, group_management, applied_rules]
RuleSet_apply(M, to_spaces) ==
    RuleSetRun([M |-> M, group_management |-> <<>>, applied_rules |-> <<>>],
               to_spaces, 1)

\* ------------------------------------------------------------ store protocol
\* The public store API called by a client: any call, on any live store.
SeqsUpTo(S, n) == UNION {[1..k -> S] : k \in 0..n}

\* Cell(q) for each quanta, the wildcard "_" of overwrite() and find() among
\* them: the cells a client passes to the store API
CellPool == <<[quanta |-> "A", created_at |-> 0, destroyed_at |-> 0, copy_of |-> 0],
              [quanta |-> "B", created_at |-> 0, destroyed_at |-> 0, copy_of |-> 0],
              [quanta |-> "_", created_at |-> 0, destroyed_at |-> 0, copy_of |-> 0]>>

\* the cells of the pool that are no wildcard
Letters == {c \in DOMAIN CellPool : CellPool[c].quanta \in Quanta}

Indices == -1..MaxLen
Values == SeqsUpTo(Letters, MaxVal)

\* no sequence of the heap exceeds the model's length bound
Bounded(M) ==
    /\ \A s \in DOMAIN M.stores :
          Len(M.stores[s].vec) <= MaxLen /\ Len(M.stores[s].evolver) <= MaxLen
    /\ \A b \in DOMAIN M.bufs : Len(M.bufs[b]) <= MaxLen

\* the state after a call on store s that left the heap as M
Returns(M, op, s) ==
    /\ Bounded(M)
    /\ nops < MaxOps
    /\ nops' = nops + 1
    /\ stores' = M.stores
    /\ bufs' = M.bufs
    /\ cells' = M.cells
    /\ exc' = M.exc
    /\ last' = [op |-> op, store |-> s]
    /\ parent' = IF Len(M.stores) > Len(stores) THEN Append(parent, s) ELSE parent
    /\ UNCHANGED <<bytes_cache, caches, flow_vars>>

InitStore ==
    /\ bytes_cache \in BOOLEAN
    /\ caches = DefaultCaches
    /\ cells = CellPool
    /\ \E kind \in {"Vec", "TrieVec"}, elems \in SeqsUpTo(Letters, InitLen) :
          /\ stores = <<NewStore(kind, elems, 1)>>
          /\ bufs = <<Encode(CellPool, elems)>>
    /\ exc = "none"
    /\ last = [op |-> "init", store |-> 1]
    /\ nops = 0
    /\ parent = <<0>>
    /\ events = <<>> /\ rules = <<>> /\ pc = "idle"
    /\ max_steps = 0 /\ calls = 0 /\ trace = <<>> /\ turns = <<>>
    /\ others = <<>>

SetItemInt ==
    \E s \in DOMAIN stores, i \in Indices, c \in Letters :
        \E M \in {setitem_int(Mem, s, i, c)} : Returns(M, "setitem_int", s)

SetItemSlice ==
    \E s \in DOMAIN stores, a \in Indices, b \in Indices, v \in Values :
        \E M \in {setitem_slice(Mem, s, a, b, v)} : Returns(M, "setitem_slice", s)

DelItemInt ==
    \E s \in DOMAIN stores, i \in Indices :
        \E M \in {delitem_int(Mem, s, i)} : Returns(M, "delitem_int", s)

DelItemSlice ==
    \E s \in DOMAIN stores, a \in Indices, b \in Indices :
        \E M \in {delitem_slice(Mem, s, a, b)} : Returns(M, "delitem_slice", s)

AppendCell ==
    \E s \in DOMAIN stores, c \in Letters :
        \E M \in {append(Mem, s, c)} : Returns(M, "append", s)

ExtendCells ==
    \E s \in DOMAIN stores, v \in Values :
        \E M \in {extend(Mem, s, v)} : Returns(M, "extend", s)

InsertCell ==
    \E s \in DOMAIN stores, i \in Indices, c \in Letters :
        \E M \in {insert(Mem, s, i, c)} : Returns(M, "insert", s)

Commit ==
    \E s \in DOMAIN stores : \E M \in {commit(Mem, s)} : Returns(M, "commit", s)

Branch ==
    \E s \in DOMAIN stores :
        /\ Len(stores) < MaxStores
        /\ \E M \in {branch(Mem, s)} : Returns(M, "branch", s)

NextStore ==
    \/ SetItemInt \/ SetItemSlice \/ DelItemInt \/ DelItemSlice
    \/ AppendCell \/ ExtendCells \/ InsertCell \/ Commit \/ Branch

SpecStore == InitStore /\ [][NextStore]_vars

\* ------------------------------------------------------------ Flow
\* the concatenation of a sequence of sequences
RECURSIVE Flatten(_)
Flatten(ss) == IF ss = <<>> THEN <<>> ELSE Head(ss) \o Flatten(Tail(ss))

\* the elements of a sequence
Range_of(q) == {q[i] : i \in DOMAIN q}

\* the DeltaSpace records of a list of DeltaSpaces
DeltaSpacesOf(space_deltas) ==
    Flatten([k \in 1..Len(space_deltas) |-> space_deltas[k].space_deltas])

\* Event.spaces: the output spaces that are not None, in order
Event_spaces(ev) ==
    SelectSeq(Flatten([k \in 1..Len(DeltaSpacesOf(ev.space_deltas)) |->
                          DeltaSpacesOf(ev.space_deltas)[k].output_space]),
              LAMBDA sp : sp # 0)

\* the DeltaCell records of a list of DeltaSpaces
DeltaCellsOf(space_deltas) ==
    Flatten([k \in 1..Len(DeltaSpacesOf(space_deltas)) |->
                DeltaSpacesOf(space_deltas)[k].cell_deltas])

\* Event.affected_cells: the DeltaCells that are truthy
Event_affected_cells(ev) == SelectSeq(DeltaCellsOf(ev.space_deltas), DeltaCell_bool)

\* Event(time, space_deltas)
Event(time, space_deltas) ==
    [time |-> time, space_deltas |-> space_deltas, inert |-> FALSE,
     causal_distance_to_creation |-> 0]

\* Flow.current_event
current_event(evs) == evs[Len(evs)]

\* the least element of a non-empty set of integers
Min(S) == CHOOSE x \in S : \A y \in S : x <= y

\* mutant of Flow.evolve: the inert flag is not set
SetInert_Skip(evs) == evs

\* `self.current_event.inert = True; return`
SetInert(evs) == [evs EXCEPT ![Len(evs)].inert = TRUE]

\* mutant of Flow.evolve: the Event is appended, its cells are not stamped
AppendEvent_NoStamp(M, evs, applied_rules) ==
    [M |-> M,
     events |-> Append(evs, Event(current_event(evs).time + 1, applied_rules))]

\* the tail of Flow.evolve once rules were applied: append the Event, stamp
\* the cells of its deltas, set its causal distance.  [M, events]
AppendEvent(M, evs, applied_rules) ==
    Bind(Append(evs, Event(current_event(evs).time + 1, applied_rules)), LAMBDA evs1 :
    Bind(DeltaCellsOf(applied_rules), LAMBDA dcs :
    Bind(UNION {Range_of(dcs[k].new_cells) : k \in 1..Len(dcs)}, LAMBDA born :
    Bind(UNION {Range_of(dcs[k].destroyed_cells) : k \in 1..Len(dcs)}, LAMBDA dead :
    Bind([c \in DOMAIN M.cells |->
             [M.cells[c] EXCEPT
                !.created_at = IF c \in born THEN Len(evs1) - 1 ELSE @,
                !.destroyed_at = IF c \in dead THEN Len(evs1) - 1 ELSE @]],
         LAMBDA C1 :
    Bind(Event_affected_cells(current_event(evs1)), LAMBDA aff :
    Bind({C1[c].created_at :
             c \in UNION {Range_of(aff[k].destroyed_cells) : k \in 1..Len(aff)}},
         LAMBDA causally_connected_events :
        LET min_prev == IF causally_connected_events = {} THEN -1
                        ELSE Min({evs1[e + 1].causal_distance_to_creation :
                                     e \in causally_connected_events})
        IN  [M |-> [M EXCEPT !.cells = C1],
             events |-> [evs1 EXCEPT
                           ![Len(evs1)].causal_distance_to_creation = min_prev + 1]]
    )))))))

\* Flow.evolve().  [M, events]
Flow_evolve(M, evs) ==
    Bind(Event_spaces(current_event(evs)), LAMBDA to_spaces :
    Bind(RuleSet_apply(M, to_spaces), LAMBDA a :
        IF a.M.exc # "none" THEN [M |-> a.M, events |-> evs]
        ELSE IF ~\E k \in 1..Len(a.applied_rules) :
                    DeltaSpaces_bool(a.M, a.applied_rules[k])
        THEN [M |-> a.M, events |-> SetInert(evs)]
        ELSE AppendEvent(a.M, evs, a.applied_rules)))

\* mutant of Flow.evolve_until_inert: the loop does not test the cap
UntilInert_NoCap(evs, steps) == ~current_event(evs).inert

\* the loop test of Flow.evolve_until_inert
UntilInertContinues(evs, steps) == ~current_event(evs).inert /\ steps # 0

\* the loop test of Flow.evolve_n: range(n_steps) is not exhausted
EvolveNContinues(steps) == steps > 0

\* ------------------------------------------------------------ flow protocol
\* interpret_selector for a literal: the bytes of the string, '_' read as '.'
PatternOf(qs) == [i \in 1..Len(qs) |-> IF qs[i] = "_" THEN Dot ELSE Ord(qs[i])]

\* interpret_target for a literal: one template Cell per character
TemplateOf(qs) ==
    [i \in 1..Len(qs) |-> CHOOSE c \in DOMAIN CellPool : CellPool[c].quanta = qs[i]]

SubstitutionRule(sel, tgt) ==
    BaseRule("Substitution", <<Literal(PatternOf(sel))>>, <<TemplateOf(tgt)>>)
DeletionRule(sel) == BaseRule("Deletion", <<Literal(PatternOf(sel))>>, <<>>)
InsertionRule(a, b, tgt) == BaseRule("Insertion", <<Range(a, b)>>, <<TemplateOf(tgt)>>)
OverwriteRule(a, b, tgt) == BaseRule("Overwrite", <<Range(a, b)>>, <<TemplateOf(tgt)>>)
ShiftingRule(a, b, k) == BaseRule("Shifting", <<Range(a, b)>>, <<k>>)
ReverseRule(a, b) == BaseRule("Reverse", <<Range(a, b)>>, <<>>)

\* the rule sets a Flow is built with
RuleSets ==
    { <<SubstitutionRule(<<"A">>, <<"A", "B", "A">>)>>,
      <<SubstitutionRule(<<"A", "B", "A">>, <<"A", "A", "B">>),
        SubstitutionRule(<<"A">>, <<"A", "B", "A">>)>>,
      <<SubstitutionRule(<<"C">>, <<"A">>)>>,
      <<DeletionRule(<<"A">>)>>,
      <<SubstitutionRule(<<"A">>, <<"B">>),
        [SubstitutionRule(<<"B">>, <<"A">>) EXCEPT !.group = 1]>>,
      <<SubstitutionRule(<<"B", "A">>, <<"A">>),
        [ReverseRule(0, 2) EXCEPT !.no_delta_submit = TRUE]>>,
      <<[InsertionRule(0, 0, <<"B">>) EXCEPT !.lifespan = 2]>>,
      <<OverwriteRule(1, 2, <<"A", "A">>)>>,
      <<ShiftingRule(0, 1, 1)>>,
      <<[ReverseRule(0, 2) EXCEPT !.no_delta_submit = TRUE, !.lifespan = 2]>>,
      <<[SubstitutionRule(<<"A">>, <<"A", "B", "A">>) EXCEPT
            !.parallel_execution_limit = 2, !.match_range = <<0, 2>>]>>,
      <<SubstitutionRule(<<"A">>, <<"B">>),
        [SubstitutionRule(<<"B">>, <<"A">>) EXCEPT !.always_apply = TRUE]>>,
      <<[SubstitutionRule(<<"A">>, <<"B">>) EXCEPT !.group_break = FALSE],
        SubstitutionRule(<<"B">>, <<"A">>)>>,
      <<[ReverseRule(0, 2) EXCEPT !.no_delta_submit = TRUE],
        SubstitutionRule(<<"A">>, <<"B">>)>> }

\* the strings a Flow is started on
InitialStrings == {<<"A", "B">>, <<"B">>}

\* the heap an evolve() call works on; M.searched logs the searches it makes,
\* M.turns the rules it matches and M.edits the space modifiers it calls
FlowMem ==
    [stores |-> stores, bufs |-> bufs, cells |-> cells, exc |-> "none",
     rules |-> rules, searched |-> <<>>, turns |-> <<>>, edits |-> <<>>]

\* Flow(RuleSet(rs), [SpaceState1D(kind(cells of init))]): the state after
\* Flow.__init__
InitFlow ==
    /\ bytes_cache \in BOOLEAN
    /\ caches = DefaultCaches
    /\ \E kind \in {"Vec", "TrieVec"}, init \in InitialStrings, rs \in RuleSets :
          LET ids == [i \in 1..Len(init) |-> Len(CellPool) + i]
          IN  /\ cells = CellPool \o
                    [i \in 1..Len(init) |->
                        [quanta |-> init[i], created_at |-> 0, destroyed_at |-> 0,
                         copy_of |-> 0]]
              /\ stores = <<NewStore(kind, ids, 1)>>
              /\ bufs = <<[i \in 1..Len(init) |-> Ord(init[i])]>>
              /\ rules = rs
              /\ events = <<Event(0, <<[space_deltas |->
                                <<[input_space |-> 1, output_space |-> <<1>>,
                                   cell_deltas |-> <<EmptyDelta>>]>>,
                              rule |-> 0]>>)>>
    /\ exc = "none"
    /\ last = [op |-> "init", store |-> 0]
    /\ nops = 0
    /\ parent = <<0>>
    /\ pc = "idle" /\ max_steps = 0 /\ calls = 0 /\ trace = <<>> /\ turns = <<>>
    /\ others = <<>>

\* the state after an evolve() call that ended as r = [M, events]
Evolved(r) ==
    /\ nops < MaxEvolves
    /\ nops' = nops + 1
    /\ stores' = r.M.stores
    /\ bufs' = r.M.bufs
    /\ cells' = r.M.cells
    /\ exc' = r.M.exc
    /\ rules' = r.M.rules
    /\ trace' = r.M.searched
    /\ turns' = r.M.turns
    /\ events' = r.events
    /\ UNCHANGED <<bytes_cache, caches, parent, others>>

\* a Flow method returns, or its loop goes on, without calling evolve()
NotEvolved == UNCHANGED <<stores, bufs, cells, exc, rules, trace, turns, events, nops, others,
                          bytes_cache, caches, parent>>

\* flow.evolve()
Evolve ==
    /\ pc = "idle"
    /\ \E r \in {Flow_evolve(FlowMem, events)} : Evolved(r)
    /\ last' = [op |-> "evolve", store |-> 0]
    /\ calls' = 1
    /\ UNCHANGED <<pc, max_steps>>

\* flow.evolve_n(n_steps) is called
CallEvolveN ==
    \E n_steps \in 0..MaxSteps :
        /\ pc = "idle"
        /\ nops + n_steps <= MaxEvolves
        /\ pc' = "evolve_n"
        /\ max_steps' = n_steps
        /\ calls' = 0
        /\ last' = [op |-> "evolve_n", store |-> 0]
        /\ NotEvolved

\* one turn of `for _ in range(n_steps): self.evolve()`, or its end
StepEvolveN ==
    /\ pc = "evolve_n"
    /\ IF EvolveNContinues(max_steps)
       THEN /\ \E r \in {Flow_evolve(FlowMem, events)} : Evolved(r)
            /\ max_steps' = max_steps - 1
            /\ calls' = calls + 1
            /\ pc' = IF exc' = "none" THEN pc ELSE "idle"
       ELSE /\ pc' = "idle"
            /\ NotEvolved
            /\ UNCHANGED <<max_steps, calls>>
    /\ UNCHANGED last

\* flow.evolve_until_inert(max_steps) is called
CallEvolveUntilInert ==
    \E max \in 0..MaxSteps :
        /\ pc = "idle"
        /\ nops + max <= MaxEvolves
        /\ pc' = "evolve_until_inert"
        /\ max_steps' = max
        /\ calls' = 0
        /\ last' = [op |-> "evolve_until_inert", store |-> 0, max_steps |-> max]
        /\ NotEvolved

\* one turn of `while not self.current_event.inert and max_steps`, or its end
StepEvolveUntilInert ==
    /\ pc = "evolve_until_inert"
    /\ IF UntilInertContinues(events, max_steps)
       THEN /\ \E r \in {Flow_evolve(FlowMem, events)} : Evolved(r)
            /\ max_steps' = max_steps - 1
            /\ calls' = calls + 1
            /\ pc' = IF exc' = "none" THEN pc ELSE "idle"
       ELSE /\ pc' = "idle"
            /\ NotEvolved
            /\ UNCHANGED <<max_steps, calls>>
    /\ UNCHANGED last

NextFlow ==
    \/ Evolve
    \/ CallEvolveN \/ StepEvolveN
    \/ CallEvolveUntilInert \/ StepEvolveUntilInert

SpecFlow == InitFlow /\ [][NextFlow]_vars

\* ------------------------------------------------------------ space protocol
\* The modifiers of SpaceState1D called by a client on a space it built.

\* the strings a space is built on
SpaceInits == {<<>>, <<"A">>, <<"A", "B">>}

\* the template cells a client copies and passes as `new`
NewCells == {<<>>, <<1>>, <<2, 1>>}

\* the template cells a client copies and passes to overwrite(): with the
\* wildcard "_" first, last or alone
OverwriteCells == NewCells \cup {<<3>>, <<3, 1>>, <<1, 3>>}

\* slice bounds and positions a client passes
Bounds == -1..(MaxLen + 1)
Positions == -(MaxLen + 2)..(MaxLen + 2)

\* SpaceState1D(kind(cells of init)): the state after construction
InitSpace ==
    /\ bytes_cache \in BOOLEAN
    /\ caches = DefaultCaches
    /\ \E kind \in {"Vec", "TrieVec"}, init \in SpaceInits :
          /\ cells = CellPool \o
                [i \in 1..Len(init) |->
                    [quanta |-> init[i], created_at |-> 0, destroyed_at |-> 0,
                     copy_of |-> 0]]
          /\ stores = <<NewStore(kind, [i \in 1..Len(init) |-> Len(CellPool) + i], 1)>>
          /\ bufs = <<[i \in 1..Len(init) |-> Ord(init[i])]>>
    /\ exc = "none"
    /\ last = [op |-> "init", store |-> 1]
    /\ nops = 0
    /\ parent = <<0>>
    /\ events = <<>> /\ rules = <<>> /\ pc = "idle"
    /\ max_steps = 0 /\ calls = 0 /\ trace = <<>> /\ turns = <<>>
    /\ others = <<>>

\* the state after the modifier `op` was called on space s with `selector`
\* and `new`, and ended as r = [M, dc]
SpaceReturns(r, op, s, selector, new) ==
    /\ nops < MaxSpaceOps
    /\ nops' = nops + 1
    /\ stores' = r.M.stores
    /\ bufs' = r.M.bufs
    /\ cells' = r.M.cells
    /\ exc' = r.M.exc
    /\ last' = [op |-> op, store |-> s, selector |-> selector, new |-> new,
                dc |-> r.dc]
    /\ UNCHANGED <<bytes_cache, caches, parent, flow_vars>>

\* space.substitute((a, b), deepcopy(template))
Substitute ==
    \E s \in DOMAIN stores, a \in Bounds, b \in Bounds, t \in NewCells :
        \E D \in {DeepCopy(Mem, t)} :
            \E r \in {substitute(D.M, s, <<a, b>>, D.ids)} :
                SpaceReturns(r, "substitute", s, <<a, b>>, D.ids)

\* space.substitute((a, b), old), old being the destroyed cells the last call
\* returned
SubstituteBack ==
    \E s \in DOMAIN stores, a \in Bounds, b \in Bounds :
        /\ "dc" \in DOMAIN last
        /\ \E r \in {substitute(Mem, s, <<a, b>>, last.dc.destroyed_cells)} :
              SpaceReturns(r, "substitute", s, <<a, b>>, last.dc.destroyed_cells)

\* space.insert(pos, deepcopy(template))
SpaceInsert ==
    \E s \in DOMAIN stores, pos \in Positions, t \in NewCells :
        \E D \in {DeepCopy(Mem, t)} :
            \E r \in {space_insert(D.M, s, pos, D.ids)} :
                SpaceReturns(r, "insert", s, pos, D.ids)

\* space.overwrite(pos, deepcopy(template))
SpaceOverwrite ==
    \E s \in DOMAIN stores, pos \in Bounds, t \in OverwriteCells :
        \E D \in {DeepCopy(Mem, t)} :
            \E r \in {overwrite(D.M, s, pos, D.ids)} :
                SpaceReturns(r, "overwrite", s, pos, D.ids)

NextSpace == Substitute \/ SubstituteBack \/ SpaceInsert \/ SpaceOverwrite

SpecSpace == InitSpace /\ [][NextSpace]_vars

\* ---------------------------------------------------------- reorder protocol
\* The reordering modifiers of SpaceState1D, called on a space as built or
\* after overwrite() calls.

\* the ranges a client passes: one cell, two cells, empty, with negative
\* endpoints, past the end
Ranges == {<<0, 1>>, <<1, 2>>, <<0, 2>>, <<2, 2>>, <<-1, 2>>, <<-2, -1>>, <<1, 3>>}

\* the distances a client shifts a block by
Shifts == -(MaxLen + 1)..(MaxLen + 1)

\* space.shift(sel, k)
SpaceShift ==
    \E s \in DOMAIN stores, sel \in Ranges, k \in Shifts :
        \E r \in {shift(Mem, s, sel, k)} :
            SpaceReturns(r, "shift", s, <<sel[1], sel[2], k>>, <<>>)

\* space.swap(sel1, sel2)
SpaceSwap ==
    \E s \in DOMAIN stores, sel1 \in Ranges, sel2 \in Ranges :
        \E r \in {swap(Mem, s, sel1, sel2)} :
            SpaceReturns(r, "swap", s, <<sel1[1], sel1[2], sel2[1], sel2[2]>>, <<>>)

NextReorder == SpaceOverwrite \/ SpaceShift \/ SpaceSwap

SpecReorder == InitSpace /\ [][NextReorder]_vars

\* ------------------------------------------------------------ match protocol
\* BaseRule.match called on one space by a rule with one or two selectors.

\* the strings the matched space is built on
MatchStrings == {<<"A", "B", "A">>, <<"A", "B">>, <<"B">>}

\* the selectors a rule is built from
MatchSelectorPool ==
    {Literal(PatternOf(<<"A", "B">>)), Literal(PatternOf(<<"B", "A">>)),
     Literal(PatternOf(<<"A">>)), Range(0, 2), Range(1, 3), Range(1, 1)}

\* the values of the flag cmp, and the values of match_range
MarkPolicies == {"both", "og", "this", "ignore"}
MatchRanges == {<<0, 1>>, <<0, 2>>}

\* a space and a rule as built: the rule with its flags at their defaults
\* but cmp and match_range
InitMatch ==
    /\ bytes_cache \in BOOLEAN
    /\ caches = DefaultCaches
    /\ \E kind \in {"Vec", "TrieVec"}, init \in MatchStrings :
          /\ cells = CellPool \o
                [i \in 1..Len(init) |->
                    [quanta |-> init[i], created_at |-> 0, destroyed_at |-> 0,
                     copy_of |-> 0]]
          /\ stores = <<NewStore(kind, [i \in 1..Len(init) |-> Len(CellPool) + i], 1)>>
          /\ bufs = <<[i \in 1..Len(init) |-> Ord(init[i])]>>
    /\ \E sels \in SeqsUpTo(MatchSelectorPool, 2) \ {<<>>},
          policy \in MarkPolicies, mr \in MatchRanges :
          rules = <<[BaseRule("Substitution", sels, <<TemplateOf(<<"B">>)>>)
                       EXCEPT !.cmp = policy, !.match_range = mr]>>
    /\ exc = "none"
    /\ last = [op |-> "init", store |-> 1]
    /\ nops = 0
    /\ parent = <<0>>
    /\ events = <<>> /\ pc = "idle"
    /\ max_steps = 0 /\ calls = 0 /\ trace = <<>> /\ turns = <<>>
    /\ others = <<>>

\* rule.match([space]): the RuleMatches it returns are kept in `last`
MatchRule ==
    /\ nops = 0
    /\ nops' = 1
    /\ \E rms \in {match(Mem, rules[1], <<1>>)} :
          last' = [op |-> "match", store |-> 1, rule_matches |-> rms]
    /\ UNCHANGED <<stores, bufs, cells, bytes_cache, caches, exc, parent, flow_vars>>

NextMatch == MatchRule

SpecMatch == InitMatch /\ [][NextMatch]_vars

\* ------------------------------------------------------------ observations
Mutations ==
    {"setitem_int", "setitem_slice", "delitem_int", "delitem_slice",
     "append", "extend", "insert"}

\* the patterns a client searches for
SearchPatterns == {<<65>>, <<66>>, <<65, 66>>, <<Dot>>}

\* the spans store.finditer(p) yields, for every pattern p
SearchResults(buf) == [p \in SearchPatterns |-> finditer(p, buf)]

\* what a client observes of store record st over buffer heap B:
\* store[i] for every i < len(store), and the search results
Observe(st, B) == [read |-> st.vec, found |-> SearchResults(B[st.search_buffer])]

\* a public call was made in this step
Called == nops' # nops

\* the last call was a mutation that returned normally
Mutated == last.op \in Mutations /\ exc = "none"

\* ------------------------------------------------------------ C1
\* C1: after a public mutation of a store returns (no commit() required),
\* len(store.search_buffer) equals len(store).
C1_BufferLength ==
    Mutated =>
        Len(bufs[stores[last.store].search_buffer]) = Vec_len(Mem, last.store)

\* ------------------------------------------------------------ C2
\* C2: after a public mutation of a store returns, search_buffer[i] is the byte
\* of the quanta of the cell read through store[i], for every i < len(store),
\* also while point updates are pending in the evolver.
C2_BufferAgrees ==
    Mutated =>
        LET buf  == bufs[stores[last.store].search_buffer]
            read == Vec_getitem(Mem, last.store)
        IN  \A i \in 1..Vec_len(Mem, last.store) :
                i <= Len(buf) /\ buf[i] = Ord(cells[read[i]].quanta)

\* ------------------------------------------------------------ C3
\* C3: with B1 = S.branch() and B2 = S.branch(), a mutation of B1 changes
\* neither the cells nor the search results of S or of B2.
C3_BranchIndependence ==
    [][(Called /\ Mutated') =>
         \A b2 \in DOMAIN stores :
            LET b1 == last'.store
                S  == parent[b1]
            IN  (S # 0 /\ b2 # b1 /\ parent[b2] = S) =>
                    /\ Observe(stores'[S], bufs') = Observe(stores[S], bufs)
                    /\ Observe(stores'[b2], bufs') = Observe(stores[b2], bufs)]_vars

\* ------------------------------------------------------------ C4
\* the cells a store holds, pending point updates included
Pending(st) == IF st.editing THEN st.evolver ELSE st.vec

\* C4: right after nv = store.branch(), nv reads the same cells as the store,
\* pending updates included, over an equal search buffer; a later mutation of
\* the parent leaves the cells read from nv unchanged, and a mutation of nv
\* leaves the cells read from the parent unchanged.
C4_BranchSnapshot ==
    [][Called =>
         /\ last'.op = "branch" =>
               LET s  == last'.store
                   nv == Len(stores')
               IN  /\ stores'[nv].vec = Pending(stores[s])
                   /\ stores'[s].vec = stores'[nv].vec
                   /\ bufs'[stores'[nv].search_buffer] = bufs[stores[s].search_buffer]
                   /\ bufs'[stores'[s].search_buffer] = bufs[stores[s].search_buffer]
         /\ last'.op \in Mutations =>
               \A t \in DOMAIN stores :
                   (parent[t] = last'.store \/ parent[last'.store] = t) =>
                       stores'[t].vec = stores[t].vec]_vars

\* a TrieVec parent was point-updated after branching: it holds pending cells
\* that its branch does not read
C4_Witness ==
    \E nv \in DOMAIN stores :
        /\ parent[nv] = last.store
        /\ last.op = "setitem_int" /\ exc = "none"
        /\ stores[last.store].editing
        /\ stores[last.store].evolver # stores[nv].vec

\* ------------------------------------------------------------ C5
\* C5: whenever Rule.match searches a space during an evolve(), the buffer it
\* searches is the byte encoding of the cells the space holds (pending point
\* updates included), and it is the buffer the space had when the step began:
\* edits made earlier in the step to working copies do not show in it.
C5_MatchSeesCurrentCells ==
    [][Called =>
         \A k \in 1..Len(trace') :
            /\ trace'[k].buffer = Encode(cells', trace'[k].held)
            /\ trace'[k].buffer = bufs[stores[trace'[k].space].search_buffer]]_vars

\* ------------------------------------------------------------ C6
\* the quanta, in order, read through a store
Quantas(st, C) == [i \in 1..Len(st.vec) |-> C[st.vec[i]].quanta]

\* the spaces of every Event of a list
AllSpaces(evs) == UNION {Range_of(Event_spaces(evs[e])) : e \in 1..Len(evs)}

\* C6: when no rule has no_initial_branch set, an evolve() call leaves the cell
\* sequence (quanta, order, length) of every space of every existing Event as
\* it was, and changes no field of an existing Event but the inert flag of the
\* latest one.
C6_EventSpacesFrozen ==
    [][(Called /\ \A r \in DOMAIN rules : ~rules[r].no_initial_branch) =>
         /\ \A s \in AllSpaces(events) :
               Quantas(stores'[s], cells') = Quantas(stores[s], cells)
         /\ Len(events') >= Len(events)
         /\ \A e \in 1..Len(events) :
               \/ events'[e] = events[e]
               \/ e = Len(events) /\ events'[e] = [events[e] EXCEPT !.inert = TRUE]]_vars

\* ------------------------------------------------------------ C7
\* C7: every evolve() call either appends exactly one Event, holding the
\* DeltaSpaces the rules produced, when there are any, or appends none and
\* sets inert on the latest Event; the spaces it matches on are the spaces()
\* of the latest Event; and events[i].time = i for every index i.
C7_OneEventPerEvolve ==
    [][Called =>
         LET a == RuleSet_apply(FlowMem, Event_spaces(current_event(events)))
             n == Len(events)
         IN  /\ IF a.applied_rules # <<>>
                THEN /\ Len(events') = n + 1
                     /\ SubSeq(events', 1, n) = events
                     /\ events'[n + 1].space_deltas = a.applied_rules
                ELSE events' = [events EXCEPT ![n].inert = TRUE]
             /\ \A k \in 1..Len(trace') :
                   trace'[k].space \in Range_of(Event_spaces(current_event(events)))
             /\ \A i \in 1..Len(events') : events'[i].time = i - 1]_vars

\* ------------------------------------------------------------ C8
\* no rule has a match in any space of the latest Event
NoSelectorMatches ==
    \A r \in DOMAIN rules :
        match(FlowMem, rules[r], Event_spaces(current_event(events))) = <<>>

\* C8: when no rule matches any space of the creation Event, the first
\* evolve() call sets inert on that Event and appends none; evolve_until_inert
\* with a cap of at least one makes that one evolve() call and then returns.
C8_NoMatchInert ==
    [][/\ (Called /\ nops = 0 /\ NoSelectorMatches) =>
              /\ events' = [events EXCEPT ![1].inert = TRUE]
              /\ exc' = "none"
       /\ (pc = "evolve_until_inert" /\ nops = 0 /\ max_steps > 0
              /\ NoSelectorMatches) =>
              Called /\ calls' = 1 /\ pc' = "evolve_until_inert"
       /\ (pc = "evolve_until_inert" /\ nops = 1 /\ calls = 1
              /\ NoSelectorMatches /\ Len(events) = 1) =>
              ~Called /\ calls' = 1 /\ pc' = "idle" /\ events' = events]_vars

\* evolve_until_inert() has returned after one evolve() call on a Flow whose
\* rules match nothing: the creation Event is inert and still the only one
C8_Witness ==
    /\ pc = "idle" /\ last.op = "evolve_until_inert"
    /\ calls = 1 /\ nops = 1
    /\ Len(events) = 1 /\ events[1].inert
    /\ rules # <<>> /\ NoSelectorMatches

\* ------------------------------------------------------------ C9
\* C9: once the latest Event is inert, an evolve() call, whether made directly
\* or by evolve_n or evolve_until_inert, appends no Event and changes neither
\* the cells nor the search results of any space of the Flow.
C9_InertAbsorbing ==
    [][(Called /\ current_event(events).inert) =>
         /\ Len(events') = Len(events)
         /\ \A s \in AllSpaces(events) :
               Observe(stores'[s], bufs') = Observe(stores[s], bufs)]_vars

\* ------------------------------------------------------------ C10
\* C10: every turn of evolve_until_inert(max), max >= 0, is taken while the
\* latest Event is not inert and the cap is not used up, calls evolve() once
\* and appends at most one Event; the calls made and the steps left add up to
\* max, and the steps left never go below 0; when the latest Event is inert or
\* the cap is used up the method returns without a call.  The steps left are
\* the variant of the loop: they go down by one at every turn and the loop
\* ends at 0, so the method returns after at most max turns.
C10_UntilInertBounded ==
    [][/\ (pc = "evolve_until_inert" /\ Called) =>
              /\ ~current_event(events).inert /\ max_steps > 0
              /\ calls' = calls + 1 /\ max_steps' = max_steps - 1
              /\ Len(events') <= Len(events) + 1
       /\ (pc = "evolve_until_inert" /\ ~Called) =>
              /\ current_event(events).inert \/ max_steps = 0
              /\ pc' = "idle" /\ events' = events /\ calls' = calls
       /\ (pc = "evolve_until_inert" /\ (current_event(events).inert \/ max_steps = 0)) =>
              ~Called
       /\ pc' = "evolve_until_inert" =>
              /\ last'.max_steps >= 0
              /\ calls' + max_steps' = last'.max_steps
              /\ max_steps' >= 0]_vars

\* evolve_until_inert(max) has returned at the cap, after max >= 2 calls, from
\* a Flow that is not inert
C10_Witness ==
    /\ pc = "idle" /\ last.op = "evolve_until_inert" /\ exc = "none"
    /\ last.max_steps >= 2 /\ calls = last.max_steps
    /\ Len(events) > calls
    /\ ~current_event(events).inert

\* ------------------------------------------------------------ C11
\* C11: every turn of evolve_n(k) calls evolve() once, uses up one of the k
\* steps and appends at most one Event, so at most k Events are appended; and
\* once the latest Event is inert a turn of evolve_n makes no RuleSet.apply
\* (it makes no evolve() call), so the lifespan and the disabled flag of every
\* rule stay as they are.
C11_EvolveNStopsWhenInert ==
    [][/\ (pc = "evolve_n" /\ Called) =>
              /\ max_steps > 0 /\ max_steps' = max_steps - 1
              /\ calls' = calls + 1
              /\ Len(events') <= Len(events) + 1
       /\ (pc = "evolve_n" /\ current_event(events).inert) =>
              /\ ~Called
              /\ \A r \in DOMAIN rules :
                    /\ rules'[r].lifespan = rules[r].lifespan
                    /\ rules'[r].disabled = rules[r].disabled]_vars

\* ------------------------------------------------------------ C12
\* C12: every cell of the initial space has created_at = 0 when the Flow is
\* built; and at all times, for every Event N >= 1 of the Flow, every cell in
\* the created list of a DeltaCell of Event N has created_at = N and every
\* cell in a destroyed list has destroyed_at = N: the stamps are written when
\* the Event is appended and no later evolve() overwrites them.
C12_CellStamps ==
    /\ nops = 0 =>
          \A s \in AllSpaces(events) :
             \A i \in 1..Len(stores[s].vec) : cells[stores[s].vec[i]].created_at = 0
    /\ \A e \in 2..Len(events) :
          LET dcs == DeltaCellsOf(events[e].space_deltas)
          IN  \A k \in 1..Len(dcs) :
                 /\ \A i \in 1..Len(dcs[k].new_cells) :
                       cells[dcs[k].new_cells[i]].created_at = e - 1
                 /\ \A i \in 1..Len(dcs[k].destroyed_cells) :
                       cells[dcs[k].destroyed_cells[i]].destroyed_at = e - 1

\* three Events were appended, each with created and destroyed cells: the
\* stamps of Event 1 have lived through two later evolve() calls
C12_Witness ==
    /\ Len(events) = 4
    /\ \A e \in 2..4 :
          \E k \in 1..Len(DeltaCellsOf(events[e].space_deltas)) :
             /\ DeltaCellsOf(events[e].space_deltas)[k].new_cells # <<>>
             /\ DeltaCellsOf(events[e].space_deltas)[k].destroyed_cells # <<>>

\* ------------------------------------------------------------ C13
\* Event.causally_connected_events: created_at of every destroyed cell
causally_connected_events(C, ev) ==
    LET aff == Event_affected_cells(ev)
    IN  UNION {{C[aff[k].destroyed_cells[i]].created_at :
                   i \in 1..Len(aff[k].destroyed_cells)} : k \in 1..Len(aff)}

\* the cells in the created lists of an Event
CreatedBy(ev) ==
    LET dcs == DeltaCellsOf(ev.space_deltas)
    IN  UNION {Range_of(dcs[k].new_cells) : k \in 1..Len(dcs)}

\* the cells the initial space was built from: made by Cell(quanta), not
\* copied, and not a template cell of a rule
InitialCells == {c \in DOMAIN cells : c > Len(CellPool) /\ cells[c].copy_of = 0}

\* C13: for every Event E and every cell d in a destroyed list of E, with c
\* the cell d is a copy of, d.created_at is less than the index of E and is
\* the index of the Event that has c in a created list, or 0 when c is a cell
\* of the initial space; and after one step from "AB" with the rules
\* ABA -> AAB and A -> ABA the causal predecessors of Event 1 are exactly {0}.
C13_CausalEdges ==
    /\ \A e \in 2..Len(events) :
          LET dcs == DeltaCellsOf(events[e].space_deltas)
          IN  \A k \in 1..Len(dcs) : \A i \in 1..Len(dcs[k].destroyed_cells) :
                 LET d == dcs[k].destroyed_cells[i]
                     p == cells[d].created_at
                 IN  /\ p < e - 1
                     /\ IF p = 0 THEN cells[d].copy_of \in InitialCells
                        ELSE cells[d].copy_of \in CreatedBy(events[p + 1])
    /\ (/\ rules = <<SubstitutionRule(<<"A", "B", "A">>, <<"A", "A", "B">>),
                     SubstitutionRule(<<"A">>, <<"A", "B", "A">>)>>
        /\ Quantas(stores[1], cells) = <<"A", "B">>
        /\ Len(events) = 2)
          => causally_connected_events(cells, events[2]) = {0}

\* ------------------------------------------------------------ C14
\* Event.causal_distance_to_creation of the Event with index n
causal_distance(n) == events[n + 1].causal_distance_to_creation

\* the cells in the destroyed lists of an Event
DestroyedBy(ev) ==
    LET dcs == DeltaCellsOf(ev.space_deltas)
    IN  UNION {Range_of(dcs[k].destroyed_cells) : k \in 1..Len(dcs)}

\* the causal predecessors of an Event: the Events that created a cell it
\* destroyed (Event 0 created the cells of the initial space)
causal_predecessors(ev) ==
    {n \in 0..(Len(events) - 1) :
        \E d \in DestroyedBy(ev) :
           cells[d].copy_of \in (IF n = 0 THEN InitialCells
                                 ELSE CreatedBy(events[n + 1]))}

\* C14: for every Event E of the Flow, causal_distance(E) is 0 when E has no
\* causal predecessor, and otherwise it is 1 + causal_distance(P) for some
\* predecessor P and at most 1 + causal_distance(P) for every predecessor P;
\* the initial Event has distance 0 and an Event that destroyed only cells of
\* the initial space has distance 1.
C14_CausalDistance ==
    /\ causal_distance(0) = 0
    /\ \A e \in 1..Len(events) :
          LET preds == causal_predecessors(events[e])
              d     == events[e].causal_distance_to_creation
          IN  /\ preds = {} => d = 0
              /\ preds # {} =>
                    /\ \A P \in preds : d <= 1 + causal_distance(P)
                    /\ \E P \in preds : d = 1 + causal_distance(P)
              /\ preds = {0} => d = 1

\* ------------------------------------------------------------ C15
\* every destroyed list of every Event, one after the other
DestroyedLists(evs) ==
    Flatten([e \in 1..Len(evs) |->
                [k \in 1..Len(DeltaCellsOf(evs[e].space_deltas)) |->
                    DeltaCellsOf(evs[e].space_deltas)[k].destroyed_cells]])

\* the cells held by a store, committed or pending
HeldBy(st) == Range_of(st.vec) \cup Range_of(st.evolver)

\* C15: the cells in the destroyed lists of the DeltaCells are copies made at
\* the removal: no cell is recorded twice, in one list or in two, and no
\* recorded cell is held by a space; so an evolve() call, which stamps the
\* cells of the Event it appends, changes neither the metadata of a cell an
\* earlier DeltaCell recorded nor the metadata of a cell held by a space of
\* an existing Event.
C15_DestroyedAreCopies ==
    [][Called =>
         LET dl  == Flatten(DestroyedLists(events'))
             old == Flatten(DestroyedLists(events))
         IN  /\ \A i, j \in 1..Len(dl) : dl[i] = dl[j] => i = j
             /\ \A i \in 1..Len(dl) :
                   /\ cells'[dl[i]].copy_of # 0
                   /\ \A s \in DOMAIN stores' : dl[i] \notin HeldBy(stores'[s])
             /\ \A i \in 1..Len(old) : cells'[old[i]] = cells[old[i]]
             /\ \A s \in AllSpaces(events) :
                   \A c \in HeldBy(stores[s]) : cells'[c] = cells[c]]_vars

\* two branches of one space have each destroyed the same cell of that space:
\* two DeltaCells record two copies of one cell
C15_Witness ==
    \E i, j \in 1..Len(Flatten(DestroyedLists(events))) :
        LET dl == Flatten(DestroyedLists(events))
        IN  /\ dl[i] # dl[j]
            /\ cells[dl[i]].copy_of = cells[dl[j]].copy_of
            /\ \E s \in AllSpaces(events) : cells[dl[i]].copy_of \in HeldBy(stores[s])

\* ------------------------------------------------------------ C16
\* the Flow was built on "AB" with the single rule A -> ABA, default flags
C16_Scenario ==
    /\ rules = <<SubstitutionRule(<<"A">>, <<"A", "B", "A">>)>>
    /\ Quantas(stores[1], cells) = <<"A", "B">>

\* q with its leftmost "A" replaced by "ABA"
ReplaceLeftmostA(q) ==
    LET i == CHOOSE n \in 1..Len(q) : q[n] = "A" /\ \A m \in 1..(n - 1) : q[m] # "A"
    IN  SubSeq(q, 1, i - 1) \o <<"A", "B", "A">> \o SubSeq(q, i + 1, Len(q))

\* C16: on "AB" with the single rule A -> ABA under default flags, every one
\* of up to three evolve() calls returns normally and appends one Event that
\* holds exactly one space, the previous space with its leftmost A replaced by
\* ABA: the spaces are AB, ABAB, ABABAB, ABABABAB, whatever the run.
C16_SingleRuleRun ==
    C16_Scenario =>
        /\ exc = "none"
        /\ Len(events) = nops + 1
        /\ \A e \in 1..Len(events) :
              /\ Len(Event_spaces(events[e])) = 1
              /\ Quantas(stores[Event_spaces(events[e])[1]], cells)
                    = [i \in 1..(2 * e) |-> IF i % 2 = 1 THEN "A" ELSE "B"]
              /\ e > 1 =>
                    Quantas(stores[Event_spaces(events[e])[1]], cells)
                      = ReplaceLeftmostA(
                           Quantas(stores[Event_spaces(events[e - 1])[1]], cells))

\* ------------------------------------------------------------ C17
\* the cells read through store record st: st[i] for every i < len(st)
Read(st) == st.vec

\* (a, b) is a range of a sequence of length n
IsRange(sel, n) == 0 <= sel[1] /\ sel[1] <= sel[2] /\ sel[2] <= n

\* C17: substitute((s, e), new) on a space that reads as the cell sequence c,
\* (s, e) a range of c, returns normally and leaves the space reading as
\* c[:s] + new + c[e:], the cells outside [s, e) being the same cells in the
\* same order; it returns created = new and destroyed = one copy of each cell
\* of c[s:e], in order.
C17_Substitute ==
    [][(Called /\ last'.op = "substitute"
            /\ IsRange(last'.selector, Len(Read(stores[last'.store])))) =>
         LET c  == Read(stores[last'.store])
             a  == last'.selector[1]
             b  == last'.selector[2]
             dc == last'.dc
         IN  /\ exc' = "none"
             /\ Read(stores'[last'.store])
                   = SubSeq(c, 1, a) \o last'.new \o SubSeq(c, b + 1, Len(c))
             /\ dc.new_cells = last'.new
             /\ Len(dc.destroyed_cells) = b - a
             /\ \A i \in 1..(b - a) :
                   /\ dc.destroyed_cells[i] \notin Range_of(c)
                   /\ cells'[dc.destroyed_cells[i]].copy_of = c[a + i]
                   /\ cells'[dc.destroyed_cells[i]].quanta = cells[c[a + i]].quanta]_vars

\* ------------------------------------------------------------ C18
\* the cells the space was built on, in order
InitialSeq ==
    SelectSeq([c \in 1..Len(cells) |-> c], LAMBDA c : c \in InitialCells)

\* C18: on a space as built, substitute((s, e), new) with (s, e) a range of
\* the space, followed by substitute((s, s + len(new)), old) with old the
\* destroyed cells the first call returned, returns normally and leaves the
\* space with the quanta, the length and the search buffer it was built with.
C18_RoundTrip ==
    [][(/\ Called /\ nops = 1
        /\ last.op = "substitute" /\ exc = "none"
        /\ IsRange(last.selector, Len(InitialSeq))
        /\ last'.op = "substitute"
        /\ last'.selector = <<last.selector[1], last.selector[1] + Len(last.new)>>
        /\ last'.new = last.dc.destroyed_cells) =>
         /\ exc' = "none"
         /\ Quantas(stores'[1], cells') = [i \in 1..Len(InitialSeq) |->
                                             cells[InitialSeq[i]].quanta]
         /\ Len(Read(stores'[1])) = Len(InitialSeq)
         /\ bufs'[stores'[1].search_buffer] = Encode(cells, InitialSeq)]_vars

\* ------------------------------------------------------------ C19
\* pos is an insert position of a sequence of length n
InBounds(pos, n) == -(n + 1) <= pos /\ pos <= n

\* the index insert(pos, new) inserts at, in a sequence of length n
InsertIndex(pos, n) == IF pos < 0 THEN n + pos + 1 ELSE pos

\* C19: insert(pos, new) on a space that reads as the cell sequence c, pos in
\* bounds, returns normally with an empty destroyed list and created = new;
\* the space then reads as c with the cells of new at indices idx ..
\* idx + len(new) - 1, where idx is pos for pos >= 0 and len(c) + pos + 1 for
\* pos < 0: insert(-1, new) puts new after the last cell.
C19_Insert ==
    [][(Called /\ last'.op = "insert"
            /\ InBounds(last'.selector, Len(Read(stores[last'.store])))) =>
         LET c   == Read(stores[last'.store])
             idx == InsertIndex(last'.selector, Len(c))
         IN  /\ exc' = "none"
             /\ last'.dc = [destroyed_cells |-> <<>>, new_cells |-> last'.new]
             /\ Read(stores'[last'.store])
                   = SubSeq(c, 1, idx) \o last'.new \o SubSeq(c, idx + 1, Len(c))]_vars

\* ------------------------------------------------------------ C20
\* C20: insert(pos, new) on a space that reads as a sequence of length n, with
\* pos > n or pos < -(n + 1), either leaves the cells and the search buffer
\* of the space as they were, or raises an error; in no case is a cell of new
\* in the space afterwards.
C20_InsertOutOfBounds ==
    [][(Called /\ last'.op = "insert"
            /\ ~InBounds(last'.selector, Len(Read(stores[last'.store])))) =>
         LET s == last'.store
         IN  /\ \/ exc' # "none"
                \/ /\ Read(stores'[s]) = Read(stores[s])
                   /\ bufs'[stores'[s].search_buffer] = bufs[stores[s].search_buffer]
             /\ \A i \in 1..Len(last'.new) :
                   last'.new[i] \notin HeldBy(stores'[s])]_vars

\* ------------------------------------------------------------ C21
\* the indices of `new` whose cell is no wildcard, in order
NonWild(C, new) ==
    SelectSeq([i \in 1..Len(new) |-> i], LAMBDA i : C[new[i]].quanta # "_")

\* the position overwrite(pos, new) starts at, in a sequence of length n
OverwriteIndex(pos, n) == IF pos < 0 THEN n + pos ELSE pos

\* C21: overwrite(pos, new) on a space that reads as the cell sequence c, pos
\* resolving to p >= 0, returns normally; for each i whose new[i] is no
\* wildcard, new[i] is at index p + i when p + i < len(c) and is appended
\* otherwise, in order; every other index of c keeps its cell; created is
\* the non-wildcard cells of new, in order, and destroyed is one copy of
\* each replaced cell of c, in order.
C21_Overwrite ==
    [][(Called /\ last'.op = "overwrite"
            /\ OverwriteIndex(last'.selector, Len(Read(stores[last'.store]))) >= 0) =>
         LET c   == Read(stores[last'.store])
             c2  == Read(stores'[last'.store])
             n   == Len(c)
             new == last'.new
             p   == OverwriteIndex(last'.selector, n)
             nw  == NonWild(cells', new)
             ins == SelectSeq(nw, LAMBDA i : p + i <= n)
             out == SelectSeq(nw, LAMBDA i : p + i > n)
             dc  == last'.dc
         IN  /\ exc' = "none"
             /\ Len(c2) = n + Len(out)
             /\ \A j \in 1..n :
                   c2[j] = IF \E k \in 1..Len(ins) : p + ins[k] = j
                           THEN new[j - p]
                           ELSE c[j]
             /\ \A k \in 1..Len(out) : c2[n + k] = new[out[k]]
             /\ dc.new_cells = [k \in 1..Len(nw) |-> new[nw[k]]]
             /\ Len(dc.destroyed_cells) = Len(ins)
             /\ \A k \in 1..Len(ins) :
                   /\ dc.destroyed_cells[k] \notin Range_of(c)
                   /\ cells'[dc.destroyed_cells[k]].copy_of = c[p + ins[k]]]_vars

\* ------------------------------------------------------------ C22
\* how many times cell x occurs in the sequence q
Count(q, x) == Cardinality({i \in DOMAIN q : q[i] = x})

\* q and q2 hold the same cells, each as many times
SameCells(q, q2) ==
    \A x \in Range_of(q) \cup Range_of(q2) : Count(q, x) = Count(q2, x)

\* the search buffer of store record st agrees with the cells it reads as
Agrees(st, B, C) == B[st.search_buffer] = Encode(C, Read(st))

\* C22: shift((start, end), k) on a space that reads as the cell sequence c
\* returns normally with an empty DeltaCell; the space then reads as a
\* sequence of the same length holding the same cells as many times, and its
\* search buffer agrees with its cells if it did before; when (start, end),
\* negative endpoints resolved against len(c), is a range of c and there is
\* room (start + k >= 0 for k < 0, end + k <= len(c) for k > 0), the block
\* c[start:end] is k positions further and the other cells keep their order.
C22_Shift ==
    [][(Called /\ last'.op = "shift") =>
         LET st    == stores[last'.store]
             st2   == stores'[last'.store]
             c     == Read(st)
             c2    == Read(st2)
             n     == Len(c)
             start == NormIdx(last'.selector[1], n)
             end   == NormIdx(last'.selector[2], n)
             k     == last'.selector[3]
         IN  /\ exc' = "none"
             /\ last'.dc = EmptyDelta
             /\ Len(c2) = n
             /\ SameCells(c, c2)
             /\ Agrees(st, bufs, cells) => Agrees(st2, bufs', cells')
             /\ (IsRange(<<start, end>>, n) /\ k < 0 /\ start + k >= 0) =>
                   c2 = SubSeq(c, 1, start + k) \o SubSeq(c, start + 1, end)
                          \o SubSeq(c, start + k + 1, start) \o SubSeq(c, end + 1, n)
             /\ (IsRange(<<start, end>>, n) /\ k > 0 /\ end + k <= n) =>
                   c2 = SubSeq(c, 1, start) \o SubSeq(c, end + 1, end + k)
                          \o SubSeq(c, start + 1, end) \o SubSeq(c, end + k + 1, n)]_vars

\* ------------------------------------------------------------ C23
\* the ranges a and b share at least one index
SharesIndex(a, b) == \E i \in a[1]..(a[2] - 1) : b[1] <= i /\ i < b[2]

\* range a ends where range b starts, or before
Before(a, b) == a[2] <= b[1]

\* C23: swap(a, b) on a space that reads as the cell sequence c, negative
\* endpoints resolved against len(c): when a and b share an index the call
\* raises and the cells and the search buffer of the space are as they were;
\* when a and b are ranges of c and one ends before the other starts, the
\* call returns normally with an empty DeltaCell and the space reads as c
\* with the two blocks exchanged, its length unchanged.
C23_Swap ==
    [][(Called /\ last'.op = "swap") =>
         LET st  == stores[last'.store]
             st2 == stores'[last'.store]
             c   == Read(st)
             c2  == Read(st2)
             n   == Len(c)
             a   == <<NormIdx(last'.selector[1], n), NormIdx(last'.selector[2], n)>>
             b   == <<NormIdx(last'.selector[3], n), NormIdx(last'.selector[4], n)>>
             lo  == IF Before(a, b) THEN a ELSE b
             hi  == IF Before(a, b) THEN b ELSE a
         IN  /\ SharesIndex(a, b) =>
                   /\ exc' # "none"
                   /\ c2 = c
                   /\ bufs'[st2.search_buffer] = bufs[st.search_buffer]
             /\ (IsRange(a, n) /\ IsRange(b, n) /\ (Before(a, b) \/ Before(b, a))) =>
                   /\ exc' = "none"
                   /\ last'.dc = EmptyDelta
                   /\ Len(c2) = n
                   /\ c2 = SubSeq(c, 1, lo[1]) \o SubSeq(c, hi[1] + 1, hi[2])
                          \o SubSeq(c, lo[2] + 1, hi[1]) \o SubSeq(c, lo[1] + 1, lo[2])
                          \o SubSeq(c, hi[2] + 1, n)]_vars

\* ------------------------------------------------------------ C24
\* the half-open spans a and b overlap
SpansOverlap(a, b) == a[1] < b[2] /\ b[1] < a[2]

\* the indices (from 0) of the spans of rm that overlap another span of rm
Overlapping(rm) ==
    {i - 1 : i \in {i \in DOMAIN rm.matches :
                      \E j \in DOMAIN rm.matches \ {i} :
                          SpansOverlap(rm.matches[i], rm.matches[j])}}

\* C24: with cmp = "both", the conflict set of every RuleMatch that match()
\* returns is the set of the indices of the accepted spans that overlap
\* another accepted span of the same space: both spans of an overlapping
\* pair are in it, and no span that overlaps no other.
C24_ConflictsBoth ==
    (last.op = "match" /\ rules[1].cmp = "both") =>
        \A k \in DOMAIN last.rule_matches :
            last.rule_matches[k].conflicts = Overlapping(last.rule_matches[k])

\* ------------------------------------------------------------ C25
\* the indices (from 0) of the spans of rm that overlap a span accepted before
OverlapsEarlier(rm) ==
    {j - 1 : j \in {j \in DOMAIN rm.matches :
                      \E i \in 1..(j - 1) : SpansOverlap(rm.matches[i], rm.matches[j])}}

\* the indices (from 0) of the spans of rm that a span accepted later overlaps
OverlapsLater(rm) ==
    {i - 1 : i \in {i \in DOMAIN rm.matches :
                      \E j \in (i + 1)..Len(rm.matches) :
                          SpansOverlap(rm.matches[i], rm.matches[j])}}

\* the conflict set the mark policy cmp asks for
Marked(cmp, rm) ==
    CASE cmp = "this"   -> OverlapsEarlier(rm)
      [] cmp = "og"     -> OverlapsLater(rm)
      [] cmp = "both"   -> OverlapsEarlier(rm) \cup OverlapsLater(rm)
      [] cmp = "ignore" -> {}

\* C25: the conflict set of every RuleMatch that match() returns holds, of
\* each pair of overlapping accepted spans, the index of the span found
\* later with cmp = "this", the index of the span found earlier with
\* cmp = "og", both with cmp = "both", and nothing with cmp = "ignore".
C25_MarkPolicy ==
    last.op = "match" =>
        \A k \in DOMAIN last.rule_matches :
            last.rule_matches[k].conflicts = Marked(rules[1].cmp, last.rule_matches[k])

\* ------------------------------------------------------------ C26
\* the rules matched in the last RuleSet.apply step, and those among them
\* whose DeltaSpaces was true
MatchedRules(t) == {t[k].rule : k \in DOMAIN t}
FiredRules(t) == {t[k].rule : k \in {k \in DOMAIN t : t[k].fired}}

\* an earlier rule of the group of rule r, with group_break, fired in the step
GroupBroken(R, t, r) ==
    \E r0 \in 1..(r - 1) :
        r0 \in FiredRules(t) /\ R[r0].group = R[r].group /\ R[r0].group_break

\* C26: in every RuleSet.apply step that returns, a rule is matched exactly
\* when it is enabled and either has always_apply or no earlier rule of its
\* group with group_break has fired in this step: a fired group_break rule
\* silences the later rules of its group, those of other groups are matched
\* as ever, and nothing of an earlier step silences a rule.
C26_GroupBreak ==
    [][(Called /\ exc' = "none") =>
         \A r \in DOMAIN rules :
            r \in MatchedRules(turns') <=>
               /\ ~rules[r].disabled
               /\ rules[r].always_apply \/ ~GroupBroken(rules, turns', r)]_vars

\* a step in which a fired group_break rule silenced a later enabled rule of
\* its group, after a step that had matched that rule
C26_Witness ==
    /\ nops >= 2 /\ exc = "none"
    /\ \E r \in DOMAIN rules :
          /\ ~rules[r].disabled /\ ~rules[r].always_apply
          /\ GroupBroken(rules, turns, r)
          /\ r \notin MatchedRules(turns)
          /\ \E e \in 2..(Len(events) - 1) :
                \E k \in DOMAIN events[e].space_deltas :
                    events[e].space_deltas[k].rule = r

\* ------------------------------------------------------------ C27
\* the rules of the DeltaSpaces that the step from evs to evs2 recorded, in
\* the order of the record: those of the Event it appended, if any
RecordedRules(evs, evs2) ==
    IF Len(evs2) > Len(evs)
    THEN [k \in DOMAIN current_event(evs2).space_deltas |->
             current_event(evs2).space_deltas[k].rule]
    ELSE <<>>

\* C27: in every RuleSet.apply step that returns, a DeltaSpaces is recorded
\* for a rule exactly when the rule is enabled, has always_apply or a group
\* no fired group_break rule before it has broken, and the DeltaSpaces of
\* what its apply() returned is true; the records are in rule order, one per
\* rule; a rule whose apply() returned nothing true is not recorded and
\* leaves the later rules of its group matched; no disabled rule is matched.
C27_RecordedIffFired ==
    [][(Called /\ exc' = "none") =>
         LET rec == RecordedRules(events, events')
         IN  /\ \A r \in DOMAIN rules :
                   r \in Range_of(rec) <=>
                      /\ ~rules[r].disabled
                      /\ rules[r].always_apply \/ ~GroupBroken(rules, turns', r)
                      /\ r \in FiredRules(turns')
             /\ \A i, j \in DOMAIN rec : i < j => rec[i] < rec[j]
             /\ \A r0 \in MatchedRules(turns') \ FiredRules(turns') :
                   /\ r0 \notin Range_of(rec)
                   /\ \A r \in (r0 + 1)..Len(rules) :
                         (/\ rules[r].group = rules[r0].group
                          /\ ~rules[r].disabled
                          /\ ~GroupBroken(rules, turns', r0)
                          /\ \A r1 \in (r0 + 1)..(r - 1) : r1 \notin FiredRules(turns'))
                            => r \in MatchedRules(turns')
             /\ \A r \in DOMAIN rules :
                   rules[r].disabled => r \notin MatchedRules(turns')]_vars

\* a step in which apply() of a rule was called and returned nothing true,
\* and a later rule of the same group fired and was recorded
C27_Witness ==
    /\ exc = "none" /\ Len(events) > 1
    /\ \E k1, k2 \in DOMAIN turns :
          /\ k1 < k2
          /\ turns[k1].applied /\ ~turns[k1].fired /\ turns[k2].fired
          /\ rules[turns[k1].rule].group = rules[turns[k2].rule].group
          /\ \E k \in DOMAIN current_event(events).space_deltas :
                current_event(events).space_deltas[k].rule = turns[k2].rule

\* ------------------------------------------------------------ C28
\* C28: in every RuleSet.apply step that returns, the lifespan of a rule
\* that fired is one less than before (the infinite lifespan stays
\* infinite) and the lifespan of every other rule is what it was; a rule is
\* disabled after the step exactly when it was before or its lifespan has
\* reached zero, so that a rule with the infinite lifespan is not disabled
\* by the step and a rule whose lifespan is zero does not fire.
C28_Lifespan ==
    [][(Called /\ exc' = "none") =>
         \A r \in DOMAIN rules :
            /\ rules'[r].lifespan =
                   IF r \in FiredRules(turns') /\ rules[r].lifespan # INF
                   THEN rules[r].lifespan - 1
                   ELSE rules[r].lifespan
            /\ rules'[r].disabled <=>
                   (rules[r].disabled \/ rules'[r].lifespan = 0)
            /\ rules[r].lifespan = INF => (rules'[r].disabled <=> rules[r].disabled)
            /\ rules[r].lifespan = 0 => r \notin FiredRules(turns')]_vars

\* ------------------------------------------------------------ twin protocol
\* One sequence of public calls made on two stores built from the same cells:
\* every call is made on a store with an odd id and then, with the same
\* arguments, on its twin, the store with the next id.  branch() on a store
\* and on its twin gives the next pair.
MaxTwins == 2

\* a public call and its arguments: [op, i, j, v]
StoreCalls ==
    {[op |-> "setitem_int", i |-> i, j |-> 0, v |-> <<c>>] : i \in Indices, c \in Letters}
    \cup {[op |-> "setitem_slice", i |-> sl[1], j |-> sl[2], v |-> v] :
             sl \in Indices \X Indices, v \in Values}
    \cup {[op |-> "delitem_int", i |-> i, j |-> 0, v |-> <<>>] : i \in Indices}
    \cup {[op |-> "delitem_slice", i |-> sl[1], j |-> sl[2], v |-> <<>>] :
             sl \in Indices \X Indices}
    \cup {[op |-> "append", i |-> 0, j |-> 0, v |-> <<c>>] : c \in Letters}
    \cup {[op |-> "extend", i |-> 0, j |-> 0, v |-> v] : v \in Values}
    \cup {[op |-> "insert", i |-> i, j |-> 0, v |-> <<c>>] : i \in Indices, c \in Letters}
    \cup {[op |-> op, i |-> 0, j |-> 0, v |-> <<>>] : op \in {"commit", "branch"}}

\* the call c made on store s
Call(M, s, c) ==
    CASE c.op = "setitem_int" -> setitem_int(M, s, c.i, c.v[1])
      [] c.op = "setitem_slice" -> setitem_slice(M, s, c.i, c.j, c.v)
      [] c.op = "delitem_int" -> delitem_int(M, s, c.i)
      [] c.op = "delitem_slice" -> delitem_slice(M, s, c.i, c.j)
      [] c.op = "append" -> append(M, s, c.v[1])
      [] c.op = "extend" -> extend(M, s, c.v)
      [] c.op = "insert" -> insert(M, s, c.i, c.v[1])
      [] c.op = "commit" -> commit(M, s)
      [] c.op = "branch" -> branch(M, s)

\* the state after call c on store s left the heap as M; flip: the client
\* then calls enable_bytes_cache(not bytes_cache)
TwinReturns(M, s, c, flip) ==
    /\ nops' = nops + 1
    /\ stores' = M.stores
    /\ bufs' = M.bufs
    /\ cells' = M.cells
    /\ exc' = M.exc
    /\ last' = [op |-> c.op, store |-> s, call |-> c]
    /\ parent' = IF Len(M.stores) > Len(stores) THEN Append(parent, s) ELSE parent
    /\ bytes_cache' = (bytes_cache # flip)
    /\ UNCHANGED caches
    /\ UNCHANGED flow_vars

\* a call on the first store of a pair
TwinCall(flip) ==
    /\ last.store % 2 = 0
    /\ nops < 2 * MaxOps
    /\ \E s \in {t \in DOMAIN stores : t % 2 = 1}, c \in StoreCalls :
          /\ c.op = "branch" => Len(stores) < 2 * MaxTwins
          /\ \E M \in {Call(Mem, s, c)} : Bounded(M) /\ TwinReturns(M, s, c, flip)

\* the same call on its twin
TwinEcho(flip) ==
    /\ last.store % 2 = 1
    /\ \E M \in {Call(Mem, last.store + 1, last.call)} :
          TwinReturns(M, last.store + 1, last.call, flip)

\* two stores of one kind over the same cells, the first called with the bytes
\* cache on, its twin with the cache off
InitCache ==
    /\ bytes_cache = TRUE
    /\ caches = DefaultCaches
    /\ cells = CellPool
    /\ \E kind \in {"Vec", "TrieVec"}, elems \in SeqsUpTo(Letters, InitLen) :
          /\ stores = <<NewStore(kind, elems, 1), NewStore(kind, elems, 2)>>
          /\ bufs = <<Encode(CellPool, elems), Encode(CellPool, elems)>>
    /\ exc = "none"
    /\ last = [op |-> "init", store |-> 2]
    /\ nops = 0
    /\ parent = <<0, 0>>
    /\ events = <<>> /\ rules = <<>> /\ pc = "idle"
    /\ max_steps = 0 /\ calls = 0 /\ trace = <<>> /\ turns = <<>>
    /\ others = <<>>

CachedCall == TwinCall(TRUE)

UncachedCall == TwinEcho(TRUE)

NextCache == CachedCall \/ UncachedCall

SpecCache == InitCache /\ [][NextCache]_vars

\* a Vec and a TrieVec over the same cells, under either setting of the cache
InitTwin ==
    /\ bytes_cache \in BOOLEAN
    /\ caches = DefaultCaches
    /\ cells = CellPool
    /\ \E elems \in SeqsUpTo(Letters, InitLen) :
          /\ stores = <<NewStore("Vec", elems, 1), NewStore("TrieVec", elems, 2)>>
          /\ bufs = <<Encode(CellPool, elems), Encode(CellPool, elems)>>
    /\ exc = "none"
    /\ last = [op |-> "init", store |-> 2]
    /\ nops = 0
    /\ parent = <<0, 0>>
    /\ events = <<>> /\ rules = <<>> /\ pc = "idle"
    /\ max_steps = 0 /\ calls = 0 /\ trace = <<>> /\ turns = <<>>
    /\ others = <<>>

VecCall == TwinCall(FALSE)

TrieVecCall == TwinEcho(FALSE)

NextTwin == VecCall \/ TrieVecCall

SpecTwin == InitTwin /\ [][NextTwin]_vars

\* ------------------------------------------------------------ C29
\* what a client sees of store s: its length, its cells, its search buffer
\* and the spans of every search
Seen(S, B, s) ==
    [len |-> Len(S[s].vec), cells |-> Read(S[s]),
     buffer |-> B[S[s].search_buffer], found |-> SearchResults(B[S[s].search_buffer])]

\* every store of an odd id has a twin, and a client sees the same of both
TwinsAgree(S, B) ==
    /\ Len(S) % 2 = 0
    /\ \A s \in DOMAIN S : s % 2 = 1 => Seen(S, B, s) = Seen(S, B, s + 1)

\* the call made with the cache off has just returned
Echoed == Called /\ last'.store % 2 = 0

\* C29: a call made with the bytes cache on and the same call made with the
\* cache off, on stores that were called alike so far, end alike: with the
\* same error or none, and leaving the same cells, the same search buffer and
\* the same spans for every search.
C29_CacheTransparent ==
    [][Echoed => exc' = exc /\ TwinsAgree(stores', bufs')]_vars

\* ------------------------------------------------------------ C30
\* C30: a call made on a Vec and the same call made on a TrieVec, built from
\* the same cells and called alike so far, both returning normally, leave the
\* two stores with the same length, the same cells read through them, the
\* same search buffer and the same spans for every search.
C30_Interchangeable ==
    [][(Echoed /\ exc = "none" /\ exc' = "none") => TwinsAgree(stores', bufs')]_vars

\* ------------------------------------------------------------ flows protocol
\* Two Flow objects in one process, built alike from rule sets and spaces
\* that were constructed separately: no Cell, store or rule object is shared.
MaxOtherEvolves == 2

\* a rule constructed again: its template cells are Cells of its own, k ids
\* further in the heap
Rebuilt(rule, k) ==
    IF rule.kind = "Shifting" THEN rule
    ELSE [rule EXCEPT !.target =
             [t \in DOMAIN rule.target |->
                 [i \in DOMAIN rule.target[t] |-> rule.target[t][i] + k]]]

\* the Event 0 that Flow.__init__ makes for the initial space s
CreationEvent(s) ==
    Event(0, <<[space_deltas |-> <<[input_space |-> s, output_space |-> <<s>>,
                                    cell_deltas |-> <<EmptyDelta>>]>>,
                rule |-> 0]>>)

\* the state after Flow.__init__ was run twice, each time on a rule set and a
\* space built for it; the second Flow is others[1]
InitFlows ==
    /\ bytes_cache \in BOOLEAN
    /\ caches = DefaultCaches
    /\ \E kind \in {"Vec", "TrieVec"}, init \in InitialStrings, rs \in RuleSets :
          LET fresh == [i \in 1..Len(init) |->
                           [quanta |-> init[i], created_at |-> 0, destroyed_at |-> 0,
                            copy_of |-> 0]]
              k     == Len(CellPool) + Len(init)
          IN  /\ cells = CellPool \o fresh \o CellPool \o fresh
              /\ stores = <<NewStore(kind, [i \in 1..Len(init) |-> Len(CellPool) + i], 1),
                            NewStore(kind, [i \in 1..Len(init) |-> k + Len(CellPool) + i], 2)>>
              /\ bufs = <<[i \in 1..Len(init) |-> Ord(init[i])],
                          [i \in 1..Len(init) |-> Ord(init[i])]>>
              /\ rules = rs
              /\ events = <<CreationEvent(1)>>
              /\ others = <<[events |-> <<CreationEvent(2)>>,
                             rules |-> [r \in DOMAIN rs |-> Rebuilt(rs[r], k)],
                             calls |-> 0, exc |-> "none"]>>
    /\ exc = "none"
    /\ last = [op |-> "init", store |-> 0]
    /\ nops = 0
    /\ parent = <<0, 0>>
    /\ pc = "idle" /\ max_steps = 0 /\ calls = 0 /\ trace = <<>> /\ turns = <<>>

\* evolve() on the other Flow; `exc` keeps the outcome of the last call on the
\* first Flow, the outcome of this call is others[1].exc
EvolveOther ==
    /\ pc = "idle"
    /\ others # <<>>
    /\ others[1].calls < MaxOtherEvolves
    /\ \E r \in {Flow_evolve([FlowMem EXCEPT !.rules = others[1].rules],
                             others[1].events)} :
          /\ stores' = r.M.stores
          /\ bufs' = r.M.bufs
          /\ cells' = r.M.cells
          /\ trace' = r.M.searched
          /\ turns' = r.M.turns
          /\ others' = <<[events |-> r.events, rules |-> r.M.rules,
                          calls |-> others[1].calls + 1, exc |-> r.M.exc]>>
    /\ last' = [op |-> "evolve", store |-> 0]
    /\ UNCHANGED <<events, rules, exc, nops, bytes_cache, caches, parent, pc, max_steps, calls>>

NextFlows == Evolve \/ EvolveOther

SpecFlows == InitFlows /\ [][NextFlows]_vars

\* ------------------------------------------------------------ C31
\* a Cell as a client reads it
CellView(C, ids) ==
    [i \in DOMAIN ids |-> [quanta |-> C[ids[i]].quanta, created_at |-> C[ids[i]].created_at,
                           destroyed_at |-> C[ids[i]].destroyed_at]]

\* a space as a client reads it: its cells, its search buffer, its searches
SpaceView(S, B, C, s) ==
    [cells |-> CellView(C, Read(S[s])), buffer |-> B[S[s].search_buffer],
     found |-> SearchResults(B[S[s].search_buffer])]

\* an Event as a client reads it
EventView(S, B, C, ev) ==
    [time |-> ev.time, inert |-> ev.inert,
     causal_distance_to_creation |-> ev.causal_distance_to_creation,
     spaces |-> [k \in DOMAIN Event_spaces(ev) |-> SpaceView(S, B, C, Event_spaces(ev)[k])],
     rules |-> [k \in DOMAIN ev.space_deltas |-> ev.space_deltas[k].rule],
     submitted |-> [k \in DOMAIN DeltaSpacesOf(ev.space_deltas) |->
                       [o \in DOMAIN DeltaSpacesOf(ev.space_deltas)[k].output_space |->
                           DeltaSpacesOf(ev.space_deltas)[k].output_space[o] # 0]],
     deltas |-> [k \in DOMAIN DeltaCellsOf(ev.space_deltas) |->
                    [destroyed_cells |->
                         CellView(C, DeltaCellsOf(ev.space_deltas)[k].destroyed_cells),
                     new_cells |-> CellView(C, DeltaCellsOf(ev.space_deltas)[k].new_cells)]]]

\* what every rule of rs matches on the spaces of the current Event
MatchView(evs, rs, S, B, C) ==
    [r \in DOMAIN rs |->
        LET rms == match([stores |-> S, bufs |-> B, cells |-> C, exc |-> "none"],
                         rs[r], Event_spaces(current_event(evs)))
        IN  [k \in DOMAIN rms |-> [matches |-> rms[k].matches,
                                   conflicts |-> rms[k].conflicts]]]

\* a Flow as a client reads it: its events, the life of its rules, its matches
FlowView(evs, rs, S, B, C) ==
    [events |-> [e \in DOMAIN evs |-> EventView(S, B, C, evs[e])],
     rules |-> [r \in DOMAIN rs |-> [lifespan |-> rs[r].lifespan,
                                     disabled |-> rs[r].disabled]],
     matches |-> MatchView(evs, rs, S, B, C)]

ApplyStrings == {<<"A", "B", "A">>, <<"A", "B">>}

\* the selectors a rule is built from
ApplySelectorPool ==
    {Literal(PatternOf(<<"A">>)), Literal(PatternOf(<<"A", "B">>)),
     Literal(PatternOf(<<"B", "A">>))}

\* the rules: one that lengthens the space and one that shortens it
ApplyRules(sels) ==
    {BaseRule("Substitution", sels, <<TemplateOf(<<"B", "A">>)>>),
     BaseRule("Deletion", sels, <<>>)}

\* the values of the flags parallel_execution_limit, branch_limit, crp, cmp
\* and branch_origin
ParallelLimits == 1..3
BranchLimits == 0..2
ResolvePolicies == {"branch", "branch_nbl", "skip", "break", "ignore"}
ConflictMarks == {"both", "ignore"}
BranchOrigins == {"prev", "current"}

\* a space and a rule as built, the rule with its flags set by the client
InitApply ==
    /\ bytes_cache = FALSE
    /\ caches = DefaultCaches
    /\ \E kind \in {"Vec", "TrieVec"}, init \in ApplyStrings :
          /\ cells = CellPool \o
                [i \in 1..Len(init) |->
                    [quanta |-> init[i], created_at |-> 0, destroyed_at |-> 0,
                     copy_of |-> 0]]
          /\ stores = <<NewStore(kind, [i \in 1..Len(init) |-> Len(CellPool) + i], 1)>>
          /\ bufs = <<[i \in 1..Len(init) |-> Ord(init[i])]>>
    /\ \E sels \in SeqsUpTo(ApplySelectorPool, 2) \ {<<>>}, mr \in MatchRanges,
          pl \in ParallelLimits, bl \in BranchLimits, policy \in ResolvePolicies,
          mark \in ConflictMarks, origin \in BranchOrigins, nib \in BOOLEAN :
          \E rule \in ApplyRules(sels) :
             rules = <<[rule EXCEPT !.match_range = mr, !.cmp = mark, !.crp = policy,
                                    !.parallel_execution_limit = pl,
                                    !.branch_limit = bl, !.branch_origin = origin,
                                    !.no_initial_branch = nib]>>
    /\ exc = "none"
    /\ last = [op |-> "init", store |-> 1]
    /\ nops = 0
    /\ parent = <<0>>
    /\ events = <<>> /\ pc = "idle"
    /\ max_steps = 0 /\ calls = 0 /\ trace = <<>> /\ turns = <<>>
    /\ others = <<>>

\* rule.apply(matches), matches being what rule.match([space]) returned: the
\* DeltaSpaces it returns and the modifiers it called are kept in `last`
ApplyRule ==
    /\ last.op = "match"
    /\ nops' = nops + 1
    /\ \E a \in {apply(FlowMem, 1, last.rule_matches)} :
          /\ stores' = a.M.stores
          /\ bufs' = a.M.bufs
          /\ cells' = a.M.cells
          /\ exc' = a.M.exc
          /\ rules' = a.M.rules
          /\ last' = [op |-> "apply", store |-> 1, rule_matches |-> last.rule_matches,
                      modified_spaces |-> a.modified_spaces, edits |-> a.M.edits]
    /\ UNCHANGED <<bytes_cache, caches, parent, events, pc, max_steps, calls, trace, turns, others>>

NextApply == MatchRule \/ ApplyRule

SpecApply == InitApply /\ [][NextApply]_vars

\* ------------------------------------------------------------ C32
\* apply() has just returned normally, for the one RuleMatch of the space
Applied == last'.op = "apply" /\ exc' = "none" /\ Len(last'.rule_matches) = 1

\* the indices of the spans whose edit was applied to some space
EditedSpans(edits) == {edits[k].idx : k \in DOMAIN edits}

\* the n least elements of a set of integers (all of them if it has fewer)
FirstN(S, n) == {x \in S : Cardinality({y \in S : y < x}) < n}

\* the spans a rule that stops at no conflict may edit before its branches are
\* used up: parallel_execution_limit in each of branch_limit + 1 working spaces
Budget(rule) == rule.parallel_execution_limit * (rule.branch_limit + 1)

\* C32: under crp = skip the spans edited are the non-conflicting spans, as
\* many as the branch limit allows, and no conflicting span; under crp = break
\* they are spans before the first conflicting span only; under crp = ignore
\* a conflicting span is edited like any other; for every
\* parallel_execution_limit >= 1.
C32_SkipBreakIgnore ==
    [][Applied =>
         LET rule   == rules[1]
             rm     == last'.rule_matches[1]
             spans  == 0..(Len(rm.matches) - 1)
             edited == EditedSpans(last'.edits)
         IN  /\ rule.crp = "skip" =>
                   edited = FirstN(spans \ rm.conflicts, Budget(rule))
             /\ rule.crp = "break" =>
                   edited = FirstN({i \in spans : \A c \in rm.conflicts : i < c},
                                   Budget(rule))
             /\ rule.crp = "ignore" => edited = FirstN(spans, Budget(rule))]_vars

\* ---------------------------------------------------------------------
\* C33: under policy branch (or branch_nbl) the edit of a conflicting span
\* goes to a space created by this apply() and edited by nothing else, which
\* is one output of the DeltaSpace with the DeltaCell of that edit in the
\* same position; the edit leaves every other space, the input space, the
\* working space and the earlier outputs, with the cells and the search
\* buffer it had; branched from the previous space, the branch holds the
\* input's cells with the span replaced by the new cells.
ConflictEdits(edits) == {k \in DOMAIN edits : edits[k].conflict}

Spliced(v, selector, new_cells) ==
    SubSeq(v, 1, selector[1]) \o new_cells \o SubSeq(v, selector[2] + 1, Len(v))

C33_BranchFrame ==
    [][(Applied /\ rules[1].crp \in {"branch", "branch_nbl"}) =>
         LET E  == last'.edits
             ds == last'.modified_spaces[1]
         IN  \A k \in ConflictEdits(E) :
                /\ E[k].space > Len(stores)
                /\ \A j \in DOMAIN E \ {k} : E[j].space # E[k].space
                /\ Cardinality({i \in DOMAIN ds.output_space :
                                   ds.output_space[i] = E[k].space}) = 1
                /\ \A i \in DOMAIN ds.output_space :
                      ds.output_space[i] = E[k].space => ds.cell_deltas[i] = E[k].dc
                /\ E[k].touched = {}
                /\ rules[1].branch_origin = "prev" =>
                      stores'[E[k].space].vec
                          = Spliced(stores[1].vec, E[k].selector, E[k].dc.new_cells)]_vars

\* a conflicting span was branched off after an edit of the working space
C33_Witness ==
    /\ last.op = "apply" /\ exc = "none"
    /\ rules[1].crp = "branch"
    /\ \E k \in ConflictEdits(last.edits) : k > 1 /\ ~last.edits[1].conflict

\* ---------------------------------------------------------------------
\* C34: when apply() returns, the DeltaSpace of the match has as many
\* outputs as cell_deltas entries, every space a modifier was called on is
\* exactly one of the outputs, and the entry of each output holds the
\* destroyed and the new cells of the DeltaCells returned for that space, in
\* the order of the calls, and nothing else.
EditsOn(edits, s) == SelectSeq(edits, LAMBDA e : e.space = s)

DeltaOf(es) ==
    [destroyed_cells |-> Flatten([i \in DOMAIN es |-> es[i].dc.destroyed_cells]),
     new_cells |-> Flatten([i \in DOMAIN es |-> es[i].dc.new_cells])]

C34_NoEditLost ==
    [][Applied =>
         LET E  == last'.edits
             ds == last'.modified_spaces[1]
         IN  /\ Len(ds.output_space) = Len(ds.cell_deltas)
             /\ \A k \in DOMAIN E :
                   Cardinality({i \in DOMAIN ds.output_space :
                                  ds.output_space[i] = E[k].space}) = 1
             /\ \A i \in DOMAIN ds.output_space :
                   ds.cell_deltas[i] = DeltaOf(EditsOn(E, ds.output_space[i]))]_vars

\* an output that took two edits, and a second output
C34_Witness ==
    /\ last.op = "apply" /\ exc = "none"
    /\ Len(last.modified_spaces) = 1
    /\ Len(last.modified_spaces[1].output_space) = 2
    /\ Len(EditsOn(last.edits, last.modified_spaces[1].output_space[1])) = 2

\* ---------------------------------------------------------------------
\* C35: apply() edits at most branch_limit + 1 working spaces for one match;
\* under every policy but branch_nbl the spaces it edits, conflict branches
\* included, and the outputs of the DeltaSpace number at most
\* branch_limit + 1; branching from the previous space, no output took more
\* than parallel_execution_limit edits outside a conflict branch.
EditedSpaces(edits) == {edits[k].space : k \in DOMAIN edits}

WorkingSpaces(edits) == {edits[k].space : k \in DOMAIN edits \ ConflictEdits(edits)}

C35_BranchLimit ==
    [][Applied =>
         LET E    == last'.edits
             ds   == last'.modified_spaces[1]
             rule == rules[1]
         IN  /\ Cardinality(WorkingSpaces(E)) <= rule.branch_limit + 1
             /\ rule.crp # "branch_nbl" =>
                   /\ Len(ds.output_space) <= rule.branch_limit + 1
                   /\ Cardinality(EditedSpaces(E)) <= rule.branch_limit + 1
             /\ rule.branch_origin = "prev" =>
                   \A i \in DOMAIN ds.output_space :
                      Len(SelectSeq(EditsOn(E, ds.output_space[i]),
                                    LAMBDA e : ~e.conflict))
                          <= rule.parallel_execution_limit]_vars

\* the limit stopped the run: branch_limit + 1 outputs, and a span left over
C35_Witness ==
    /\ last.op = "apply" /\ exc = "none"
    /\ rules[1].branch_limit = 1
    /\ Len(last.modified_spaces) = 1
    /\ Len(last.modified_spaces[1].output_space) = 2
    /\ Len(last.edits) < Len(last.rule_matches[1].matches)
    /\ last.rule_matches[1].conflicts = {}

\* ---------------------------------------------------------------------
\* C38: with parallel_execution_limit > 1, every edit of apply() destroys
\* the cells its span denoted in the space that match() searched, so none
\* of them is a cell that an earlier edit of the same apply() created.
Originals(C, ids) == [i \in DOMAIN ids |-> C[ids[i]].copy_of]

Created(edits, k) ==
    UNION {Range_of(edits[j].dc.new_cells) : j \in 1..(k - 1)}

C38_SpansStayValid ==
    [][(Applied /\ rules[1].parallel_execution_limit > 1) =>
         LET E == last'.edits
         IN  \A k \in DOMAIN E :
                LET gone == Originals(cells', E[k].dc.destroyed_cells)
                IN  /\ gone = SubSeq(stores[1].vec, E[k].selector[1] + 1, E[k].selector[2])
                    /\ Range_of(gone) \cap Created(E, k) = {}]_vars

\* two edits went to one working space
C38_Witness ==
    /\ last.op = "apply" /\ exc = "none"
    /\ rules[1].parallel_execution_limit > 1
    /\ \E k \in DOMAIN last.edits :
          k > 1 /\ last.edits[k].space = last.edits[k - 1].space

\* ------------------------------------------------------------ select protocol
\* BaseRule.match called on several spaces by a rule with a space_range, a
\* match_range and an offset.

\* the most calls of match
MaxMatches == 2

\* the strings the spaces are built on, and the selectors of the rule
SelectStrings == {<<"A", "B", "A">>, <<"B">>}

SelectSelectorPool ==
    {Literal(PatternOf(<<"A">>)), Literal(PatternOf(<<"B">>)), Range(0, 2)}

\* the values of space_range, match_range and offset, and the arguments of match
SpaceRanges == {<<0, 1>>, <<0, 3>>, <<1, 2>>, <<1, 3>>, <<2, 2>>}
SelectRanges == {<<0, 1>>, <<0, 2>>, <<1, 2>>}
Offsets == {0, 1}
SelectInputs == {<<1, 2, 3>>, <<3, 2, 1>>, <<2, 3>>, <<1>>}

\* three spaces of one kind and a rule as built, with its flags at their
\* defaults but space_range, match_range and offset
InitSelect ==
    /\ bytes_cache = FALSE
    /\ caches = DefaultCaches
    /\ \E kind \in {"Vec", "TrieVec"}, init \in [1..3 -> SelectStrings] :
          LET at(k) == Len(CellPool) + 3 * (k - 1)
          IN  /\ cells = CellPool \o
                    [i \in 1..9 |->
                        LET k == ((i - 1) \div 3) + 1
                            j == ((i - 1) % 3) + 1
                        IN  [quanta |-> IF j <= Len(init[k]) THEN init[k][j] ELSE "_",
                             created_at |-> 0, destroyed_at |-> 0, copy_of |-> 0]]
              /\ stores = [k \in 1..3 |->
                              NewStore(kind, [j \in 1..Len(init[k]) |-> at(k) + j], k)]
              /\ bufs = [k \in 1..3 |-> [j \in 1..Len(init[k]) |-> Ord(init[k][j])]]
    /\ \E sels \in SeqsUpTo(SelectSelectorPool, 2) \ {<<>>},
          sr \in SpaceRanges, mr \in SelectRanges, off \in Offsets :
          rules = <<[BaseRule("Substitution", sels, <<TemplateOf(<<"B">>)>>)
                       EXCEPT !.space_range = sr, !.match_range = mr, !.offset = off]>>
    /\ exc = "none"
    /\ last = [op |-> "init", store |-> 1]
    /\ nops = 0
    /\ parent = <<0, 0, 0>>
    /\ events = <<>> /\ pc = "idle"
    /\ max_steps = 0 /\ calls = 0 /\ trace = <<>> /\ turns = <<>>
    /\ others = <<>>

\* rule.match(spaces): the spaces and the RuleMatches it returns are kept in
\* `last`
MatchSpaces ==
    /\ nops < MaxMatches
    /\ nops' = nops + 1
    /\ \E spaces \in SelectInputs :
          \E rms \in {match(Mem, rules[1], spaces)} :
             last' = [op |-> "match", store |-> spaces[1], spaces |-> spaces,
                      rule_matches |-> rms]
    /\ UNCHANGED <<stores, bufs, cells, bytes_cache, caches, exc, parent, flow_vars>>

NextSelect == MatchSpaces

SpecSelect == InitSelect /\ [][NextSelect]_vars

\* ---------------------------------------------------------------------
\* C36: match(spaces) returns, in the order of the input, one RuleMatch for
\* every space whose position lies in space_range and that has a kept span,
\* and none for another; its matches are, selector after selector, the
\* finds of the selector whose ordinal lies in match_range, in the order
\* found, each shifted by offset; match changes no space.
KeptOf(rule, finds) ==
    LET lo == rule.match_range[1]
        hi == IF rule.match_range[2] < Len(finds) THEN rule.match_range[2] ELSE Len(finds)
    IN  [j \in 1..(IF hi > lo THEN hi - lo ELSE 0) |->
            <<finds[lo + j][1] + rule.offset, finds[lo + j][2] + rule.offset>>]

Kept(rule, s) ==
    Flatten([k \in DOMAIN rule.selectors |-> KeptOf(rule, Finds(Mem, s, rule.selectors[k]))])

Eligible(rule, spaces) ==
    SelectSeq([i \in DOMAIN spaces |-> [pos |-> i - 1, space |-> spaces[i]]],
              LAMBDA e : /\ rule.space_range[1] <= e.pos
                         /\ e.pos < rule.space_range[2]
                         /\ Kept(rule, e.space) # <<>>)

C36_Match ==
    [][(last'.op = "match" /\ "spaces" \in DOMAIN last') =>
         LET rule == rules[1]
             el   == Eligible(rule, last'.spaces)
             rms  == last'.rule_matches
         IN  /\ Len(rms) = Len(el)
             /\ \A n \in DOMAIN rms :
                   /\ rms[n].space = el[n].space
                   /\ rms[n].matches = Kept(rule, el[n].space)
                   /\ rms[n].matches # <<>>
             /\ stores' = stores /\ bufs' = bufs /\ cells' = cells]_vars

\* a match over three spaces that kept the second find of one space, shifted,
\* and passed over a space in range that had no find
C36_Witness ==
    /\ last.op = "match" /\ "spaces" \in DOMAIN last
    /\ Len(last.spaces) = 3
    /\ rules[1].match_range = <<1, 2>> /\ rules[1].offset = 1
    /\ rules[1].space_range = <<0, 3>>
    /\ Len(last.rule_matches) = 2
    /\ \E n \in DOMAIN last.rule_matches : last.rule_matches[n].matches = <<<<3, 4>>>>

\* ------------------------------------------------------------ cache protocol
\* The caches of core.vec, switched and sized by enable_bytes_cache and
\* enable_pattern_cache, and read by _retrieve_bytes and _retrieve_pattern.

\* the most calls
MaxLookups == 5

\* the cache sizes passed to enable_*_cache
CacheSizes == 0..2

\* the patterns looked up: 'A', b'A', 'B', 'AB'
PatternKeys ==
    {[str |-> TRUE, chars |-> <<65>>], [str |-> FALSE, chars |-> <<65>>],
     [str |-> TRUE, chars |-> <<66>>], [str |-> TRUE, chars |-> <<65, 66>>]}

\* the cell sequences looked up: (), [], (A,), [A, B] over the cells 1 and 2
BytesKeys ==
    {[tuple |-> TRUE, cells |-> <<>>], [tuple |-> FALSE, cells |-> <<>>],
     [tuple |-> TRUE, cells |-> <<1>>], [tuple |-> FALSE, cells |-> <<1, 2>>]}

\* core.vec as imported: both caches on, empty, of the default size
InitFifo ==
    /\ bytes_cache = TRUE
    /\ caches = DefaultCaches
    /\ cells = CellPool
    /\ stores = <<>> /\ bufs = <<>>
    /\ rules = <<>>
    /\ exc = "none"
    /\ last = [op |-> "init", store |-> 0]
    /\ nops = 0
    /\ parent = <<>>
    /\ events = <<>> /\ pc = "idle"
    /\ max_steps = 0 /\ calls = 0 /\ trace = <<>> /\ turns = <<>>
    /\ others = <<>>

\* what a call of the cache protocol leaves alone
CacheFrame == UNCHANGED <<stores, bufs, cells, parent, flow_vars>>

\* vec.enable_bytes_cache(b, cache_size)
EnableBytesCache ==
    /\ nops < MaxLookups
    /\ nops' = nops + 1
    /\ \E b \in BOOLEAN, cache_size \in CacheSizes :
          /\ bytes_cache' = b
          /\ caches' = IF b THEN [caches EXCEPT !.bytes_cache_size = cache_size]
                        ELSE caches
          /\ last' = [op |-> "enable_bytes_cache", store |-> 0]
    /\ exc' = "none"
    /\ CacheFrame

\* vec.enable_pattern_cache(b, cache_size)
EnablePatternCache ==
    /\ nops < MaxLookups
    /\ nops' = nops + 1
    /\ \E b \in BOOLEAN, cache_size \in CacheSizes :
          /\ caches' = IF b THEN [caches EXCEPT !.pattern_cache_on = TRUE,
                                               !.pattern_cache_size = cache_size]
                        ELSE [caches EXCEPT !.pattern_cache_on = FALSE]
          /\ last' = [op |-> "enable_pattern_cache", store |-> 0]
    /\ exc' = "none"
    /\ UNCHANGED bytes_cache
    /\ CacheFrame

\* vec._retrieve_bytes(key)
RetrieveBytes ==
    /\ nops < MaxLookups
    /\ nops' = nops + 1
    /\ \E key \in BytesKeys :
          \E r \in {cached_retrieve_bytes(caches, bytes_cache, cells, key)} :
             /\ caches' = r.c
             /\ exc' = IF r.ok THEN "none" ELSE "RecursionError"
             /\ last' = [op |-> "retrieve_bytes", store |-> 0, key |-> key,
                          hit |-> r.hit, r |-> r.bytes]
    /\ UNCHANGED bytes_cache
    /\ CacheFrame

\* vec._retrieve_pattern(p)
RetrievePattern ==
    /\ nops < MaxLookups
    /\ nops' = nops + 1
    /\ \E p \in PatternKeys :
          \E r \in {cached_retrieve_pattern(caches, p)} :
             /\ caches' = r.c
             /\ last' = [op |-> "retrieve_pattern", store |-> 0, key |-> p,
                          hit |-> r.hit, r |-> r.pattern]
    /\ exc' = "none"
    /\ UNCHANGED bytes_cache
    /\ CacheFrame

NextFifo == EnableBytesCache \/ EnablePatternCache \/ RetrieveBytes \/ RetrievePattern

SpecFifo == InitFifo /\ [][NextFifo]_vars

\* ---------------------------------------------------------------------
\* C37: after a lookup neither cache holds more entries than the size it
\* was last enabled with; a lookup of a key that the cache holds changes
\* nothing of it; a lookup of another key in a full cache removes the first
\* entry and adds the key as the last.
Keys(d) == [i \in DOMAIN d |-> d[i].key]

FifoStep(d, e, size, on, key) ==
    /\ Len(e) <= size
    /\ (on /\ HasKey(d, key)) => e = d
    /\ (on /\ ~HasKey(d, key) /\ Len(d) >= size /\ d # <<>>) =>
          Keys(e) = Append(Tail(Keys(d)), key)

C37_BoundedFifo ==
    [][/\ (last'.op = "retrieve_pattern") =>
            FifoStep(caches.pattern_cache, caches'.pattern_cache,
                     caches'.pattern_cache_size, caches.pattern_cache_on, last'.key)
       /\ (last'.op = "retrieve_bytes" /\ exc' = "none") =>
            FifoStep(caches.bytes_cache, caches'.bytes_cache,
                     caches'.bytes_cache_size, bytes_cache, <<>>)]_vars

\* a miss in a full pattern cache of two entries, after a hit
C37_Witness ==
    /\ last.op = "retrieve_pattern" /\ ~last.hit
    /\ caches.pattern_cache_on /\ caches.pattern_cache_size = 2
    /\ Len(caches.pattern_cache) = 2
    /\ caches.pattern_cache[2].key = last.key
    /\ nops = 5

====
